---------------------------- MODULE Spec2Model ----------------------------
(***************************************************************************)
(* Medicine reminder bot: the guided conversation (app/medicine_bot.py),   *)
(* the SQLite store (app/database.py) and the reminder delivery engine     *)
(* (app/reminder_service.py).                                              *)
(*                                                                         *)
(* Texts are sequences of atoms.  An atom is one character ("3", ":") or,  *)
(* for the fixed button captions, the whole caption (written in ASCII).    *)
(* Instants are seconds of UTC counted from midnight of the model's day.   *)
(***************************************************************************)
EXTENDS Integers, Sequences, FiniteSets, TLC

\* ------------------------------------------------------------------ bounds
MaxMsgs      == 4   \* inbound messages handled in one behaviour
MaxEngMsgs   == 2   \* inbound messages handled while the engine runs
MaxStep      == 1   \* half-minute steps of the clock past each hour mark
MaxHour      == 1   \* hour marks of the clock past the first instant
MaxRestarts  == 1   \* restarts of the reminder service process
MaxAttempts  == 3   \* Notifier invocations recorded in one behaviour
MaxHalfMinutes == 3 \* half-minute steps of the clock that the scheduler runs on
MaxMinutes == 4     \* minutes over which the loop is followed send by send
MaxTimeLen == 5     \* characters of a text given to validate_time_format

\* ------------------------------------------------------- program constants
DedupMinutes == 2     \* reminder_service.py:78  minutes=2
SendTimeout  == 30    \* reminder_service.py:28  timeout=30.0
SleepSeconds == 60    \* reminder_service.py:129 asyncio.sleep(60)
MaxNameLen   == 100   \* medicine_bot.py:659
MaxDosageLen == 50    \* helpers.py:138
MaxInstances == 1     \* scheduler.py:25         max_instances=1

\* --------------------------------------------------------------- captions
BtnCancel         == <<"[x] Skasuvaty">>
BtnAddMedicine    == <<"[+] Dodaty liky">>
BtnAddMore        == <<"[+] Dodaty shche">>
BtnChangeTimezone == <<"[tz] Zminyty chasovyi poias">>
BtnDeleteMedicine == <<"[del] Vydalyty liky">>
BtnDeleteSelected == <<"[del] Vydalyty obrani liky">>
BtnDeleteAll      == <<"[!] Vydalyty VSI liky">>
BtnShowMedicines  == <<"[list] Moi liky">>
BtnHelp           == <<"[?] Dopomoha">>
BtnMainMenu       == <<"[home] Holovne meniu">>
BtnSave           == <<"[v] Zberehty">>
BtnEdit           == <<"[edit] Zminyty">>
BtnYes            == <<"Tak">>
BtnNo             == <<"Ni">>
BtnMorning        == <<"Ranok 08:00">>
BtnDay            == <<"Den 14:00">>
BtnEvening        == <<"Vechir 20:00">>
BtnConfirmDelete  == <<"[v] Tak, vydalyty">>
BtnYesDeleteAll   == <<"[!] TAK, vydalyty VSE">>
BtnNoCancelAll    == <<"[x] NI, skasuvaty">>
BtnConfirmToken   == <<"[!!] PIDTVERDZHUIU VYDALENNIA">>
BtnNoDontDelete   == <<"[x] NI, ne vydaliaty">>
CmdStart          == <<"/start">>
CmdCancel         == <<"/cancel">>
PfxDeleteWhole    == "[del] Vydalyty vsi liky"
PfxDeleteReminder == "[clock] Vydalyty nahaduvannia "
SepDash           == " - "
MarkCurrent       == "[v] "
SufCurrent        == " (potochnyi)"

\* filters.COMMAND: the text starts with a bot command
IsCommand(text) == Len(text) > 0 /\ text[1] \in {"/start", "/cancel"}

\* ------------------------------------------------------------ text helpers
Digits == <<"0", "1", "2", "3", "4", "5", "6", "7", "8", "9">>

IsDigit(c) == \E i \in 1..10 : Digits[i] = c

DigitVal(c) == (CHOOSE i \in 1..10 : Digits[i] = c) - 1

RECURSIVE LStrip(_)
LStrip(s) == IF s # <<>> /\ Head(s) = " " THEN LStrip(Tail(s)) ELSE s

RECURSIVE RStrip(_)
RStrip(s) ==
    IF s # <<>> /\ s[Len(s)] = " " THEN RStrip(SubSeq(s, 1, Len(s) - 1)) ELSE s

\* str.strip()
Strip(s) == RStrip(LStrip(s))

\* the text before the first occurrence of atom sep (all of it when absent)
RECURSIVE Before(_, _)
Before(s, sep) ==
    IF s = <<>> \/ Head(s) = sep THEN <<>> ELSE <<Head(s)>> \o Before(Tail(s), sep)

\* str.split()[0]: the first whitespace-delimited word (<<>> when there is none)
FirstWord(s) == Before(LStrip(s), " ")

\* str.replace(atom, ""): every occurrence of the atom removed
Remove(s, atom) == SelectSeq(s, LAMBDA c : c # atom)

AllDigits(s) == s # <<>> /\ \A i \in 1..Len(s) : IsDigit(s[i])

RECURSIVE DecVal(_)
DecVal(s) == IF s = <<>> THEN 0 ELSE 10 * DecVal(SubSeq(s, 1, Len(s) - 1)) + DigitVal(s[Len(s)])

\* f"{n:02d}"
Pad2(n) == <<Digits[(n \div 10) + 1], Digits[(n % 10) + 1]>>

\* f"{hour:02d}:{minute:02d}" and strftime("%H:%M")
FormatHHMM(hour, minute) == Pad2(hour) \o <<":">> \o Pad2(minute)

\* a text of n atoms "x"
LongText(n) == [i \in 1..n |-> "x"]

\* Optional[...] results: None is the empty text (both are falsy in the code)
None == <<>>

\* ------------------------------------------------------ utils/helpers.py
\* ^([0-9]|[01][0-9]|2[0-3])$
IsHourText(s) ==
    \/ Len(s) = 1 /\ IsDigit(s[1])
    \/ Len(s) = 2 /\ s[1] \in {"0", "1"} /\ IsDigit(s[2])
    \/ Len(s) = 2 /\ s[1] = "2" /\ s[2] \in {"0", "1", "2", "3"}

\* ^[0-5][0-9]$
IsMinuteText(s) ==
    Len(s) = 2 /\ s[1] \in {"0", "1", "2", "3", "4", "5"} /\ IsDigit(s[2])

InRange(hour, minute) == 0 <= hour /\ hour <= 23 /\ 0 <= minute /\ minute <= 59

\* validate_time_format without the range check of the compact form
time_format_unchecked(time_str) ==
    LET s == Strip(time_str)
        n == Len(s)
    IN  IF n >= 3 /\ s[n - 2] = ":" /\ IsHourText(SubSeq(s, 1, n - 3))
                  /\ IsMinuteText(SubSeq(s, n - 1, n))
        THEN FormatHHMM(DecVal(SubSeq(s, 1, n - 3)), DecVal(SubSeq(s, n - 1, n)))
        ELSE IF IsHourText(s)
        THEN FormatHHMM(DecVal(s), 0)
        ELSE IF n \in {3, 4} /\ AllDigits(s)
        THEN Pad2(DecVal(SubSeq(s, 1, n - 2)) % 100) \o <<":">> \o SubSeq(s, n - 1, n)
        ELSE None

validate_time_format(time_str) ==
    LET s  == Strip(time_str)
        n  == Len(s)
        p1 == n >= 3 /\ s[n - 2] = ":" /\ IsHourText(SubSeq(s, 1, n - 3))
                     /\ IsMinuteText(SubSeq(s, n - 1, n))
        p2 == IsHourText(s)
        p3 == n \in {3, 4} /\ AllDigits(s)
        h3 == IF n = 3 THEN DecVal(SubSeq(s, 1, 1)) ELSE DecVal(SubSeq(s, 1, 2))
        m3 == IF n = 3 THEN DecVal(SubSeq(s, 2, 3)) ELSE DecVal(SubSeq(s, 3, 4))
        p4 == n = 3 /\ AllDigits(s)
    IN  IF p1 /\ InRange(DecVal(SubSeq(s, 1, n - 3)), DecVal(SubSeq(s, n - 1, n)))
        THEN FormatHHMM(DecVal(SubSeq(s, 1, n - 3)), DecVal(SubSeq(s, n - 1, n)))
        ELSE IF p2 /\ InRange(DecVal(s), 0)
        THEN FormatHHMM(DecVal(s), 0)
        ELSE IF p3 /\ InRange(h3, m3)
        THEN FormatHHMM(h3, m3)
        ELSE IF p4 /\ InRange(DecVal(SubSeq(s, 1, 1)), DecVal(SubSeq(s, 2, 3)))
        THEN FormatHHMM(DecVal(SubSeq(s, 1, 1)), DecVal(SubSeq(s, 2, 3)))
        ELSE None

\* the unit words of the dosage patterns, each one atom
UnitWords == {"tabletka", "tabletky", "tab", "kapsula", "kapsuly", "kap", "krapl", "krapli", "ml", "g"}

PieceWords == {"tabletka", "tabletky", "kapsula", "kapsuly"}

\* ^\d+(\.\d+)?\s*(unit)\.?$ , ^piv\s*(piece)$ , ^\d+/\d+\s*(piece)$
MatchesDosagePattern(s) ==
    LET n    == Len(s)
        dot  == n >= 2 /\ s[n] = "." /\ s[n - 1] \in {"tab", "kap", "ml", "g"}
        body == IF dot THEN SubSeq(s, 1, n - 1) ELSE s
        k    == Len(body)
        num  == RStrip(SubSeq(body, 1, k - 1))
        int  == Before(num, ".")
        frac == SubSeq(num, Len(int) + 2, Len(num))
        nom  == Before(num, "/")
        den  == SubSeq(num, Len(nom) + 2, Len(num))
    IN  /\ k >= 2
        /\ \/ /\ body[k] \in UnitWords
              /\ \/ AllDigits(num)
                 \/ AllDigits(int) /\ Len(int) < Len(num) /\ AllDigits(frac)
           \/ /\ ~dot /\ body[k] \in PieceWords
              /\ \/ num = <<"piv">>
                 \/ AllDigits(nom) /\ Len(nom) < Len(num) /\ num[Len(nom) + 1] = "/"
                                   /\ AllDigits(den)

validate_dosage(dosage_str) ==
    LET s == Strip(dosage_str)
    IN  IF s = <<>> THEN None
        ELSE IF MatchesDosagePattern(s) THEN s
        ELSE IF Len(s) <= MaxDosageLen THEN s
        ELSE None

\* config/timezones.json as the captions of medicine_bot.py name it
get_timezone_list == [Kyiv |-> "Europe/Kiev", Viden |-> "Europe/Vienna"]

CityNames == DOMAIN get_timezone_list

TimezoneLabel(city) == <<city, " ", "UTC">>


\* ------------------------------------------------------------ text order
\* SQLite compares TEXT bytewise; the atoms that occur in stored columns
Alphabet == <<" ", ".", "/", "0", "1", "2", "3", "4", "5", "6", "7", "8", "9",
              ":", "?", "A", "B", "ml", "tab", "x">>

AtomRank(c) == CHOOSE i \in 1..Len(Alphabet) : Alphabet[i] = c

RECURSIVE LexLess(_, _)
LexLess(s, t) ==
    IF t = <<>> THEN FALSE
    ELSE IF s = <<>> THEN TRUE
    ELSE IF Head(s) = Head(t) THEN LexLess(Tail(s), Tail(t))
    ELSE AtomRank(Head(s)) < AtomRank(Head(t))

\* --------------------------------------------------------- app/database.py
\* sqlite3.connect() is never followed by PRAGMA foreign_keys = ON, so the
\* ON DELETE CASCADE clauses of init_db are declared and not enforced
ForeignKeys == FALSE

\* db.fault holds the Database methods that fail at present: each of them
\* catches sqlite3.Error, logs it and returns its failure value
Failing(db, method) == method \in db.fault

\* the store right after init_db: four empty tables, AUTOINCREMENT counters at 0
EmptyStore ==
    [users |-> {}, medicines |-> {}, reminders |-> {}, reminder_logs |-> {}, fault |-> {},
     seq |-> [medicines |-> 0, reminders |-> 0, reminder_logs |-> 0],
     clock |-> 0]

RemindersOfMedicines(db, mids) == {r \in db.reminders : r.medicine_id \in mids}

LogsOfReminders(db, rids) == {l \in db.reminder_logs : l.reminder_id \in rids}

\* DELETE of medicine rows gone, with the cascade when foreign keys are enforced
DropMedicines(db, gone) ==
    LET mids == {m.id : m \in gone}
        rs   == IF ForeignKeys THEN RemindersOfMedicines(db, mids) ELSE {}
        ls   == LogsOfReminders(db, {r.id : r \in rs})
    IN  [db EXCEPT !.medicines = @ \ gone, !.reminders = @ \ rs, !.reminder_logs = @ \ ls]

\* INSERT OR REPLACE INTO users: the row of that telegram_id is deleted and a
\* new one inserted from the three columns given; created_at, which the
\* statement does not name, takes its default, CURRENT_TIMESTAMP of the write
add_user(db, telegram_id, timezone) ==
    LET old  == {u \in db.users : u.telegram_id = telegram_id}
        at   == db.clock + 1
        kept == IF ForeignKeys /\ old # {}
                THEN DropMedicines(db, {m \in db.medicines : m.user_id = telegram_id})
                ELSE db
    IN  [kept EXCEPT !.users = (@ \ old) \cup
                        {[telegram_id |-> telegram_id, timezone |-> timezone,
                          created_at |-> at]},
                     !.clock = at]

\* get_user: TRUE when a row exists (the handlers only test the result)
get_user(db, telegram_id) == \E u \in db.users : u.telegram_id = telegram_id

UserTimezone(db, telegram_id) ==
    (CHOOSE u \in db.users : u.telegram_id = telegram_id).timezone

\* add_medicine on a table without AUTOINCREMENT: the id after the largest one left
add_medicine_reusing_ids(db, user_id, name) ==
    LET RECURSIVE Largest(_)
        Largest(S) == IF S = {} THEN 0
                      ELSE LET x == CHOOSE y \in S : TRUE
                               rest == Largest(S \ {x})
                           IN  IF x > rest THEN x ELSE rest
        id == Largest({m.id : m \in db.medicines}) + 1
    IN  IF Failing(db, "add_medicine") THEN [db |-> db, result |-> 0] ELSE
        [db |-> [db EXCEPT !.medicines = @ \cup {[id |-> id, user_id |-> user_id, name |-> name]},
                           !.seq.medicines = id],
         result |-> id]

\* add_medicine: the new store and cursor.lastrowid
add_medicine(db, user_id, name) ==
    LET id == db.seq.medicines + 1
    IN  IF Failing(db, "add_medicine") THEN [db |-> db, result |-> 0] ELSE
        [db |-> [db EXCEPT !.medicines = @ \cup {[id |-> id, user_id |-> user_id, name |-> name]},
                           !.seq.medicines = id],
         result |-> id]

add_reminder(db, medicine_id, time, dosage) ==
    LET id == db.seq.reminders + 1
    IN  IF Failing(db, "add_reminder") THEN [db |-> db, result |-> FALSE] ELSE
        [db |-> [db EXCEPT !.reminders = @ \cup
                              {[id |-> id, medicine_id |-> medicine_id, time |-> time,
                                dosage |-> dosage, active |-> TRUE]},
                           !.seq.reminders = id],
         result |-> TRUE]

MedicineBefore(x, y) == LexLess(x.name, y.name) \/ (x.name = y.name /\ x.id < y.id)

ReminderBefore(x, y) == LexLess(x.time, y.time) \/ (x.time = y.time /\ x.id < y.id)

RECURSIVE RemindersInOrder(_)
RemindersInOrder(S) ==
    IF S = {} THEN <<>>
    ELSE LET r == CHOOSE x \in S : \A y \in S \ {x} : ReminderBefore(x, y)
         IN  <<[id |-> r.id, time |-> r.time, dosage |-> r.dosage, active |-> r.active]>>
             \o RemindersInOrder(S \ {r})

RECURSIVE MedicinesInOrder(_, _)
MedicinesInOrder(db, S) ==
    IF S = {} THEN <<>>
    ELSE LET m == CHOOSE x \in S : \A y \in S \ {x} : MedicineBefore(x, y)
         IN  <<[id |-> m.id, name |-> m.name,
                reminders |-> RemindersInOrder(RemindersOfMedicines(db, {m.id}))]>>
             \o MedicinesInOrder(db, S \ {m})

\* medicines LEFT JOIN reminders WHERE m.user_id = ? ORDER BY m.name, r.time
get_user_medicines(db, user_id) ==
    MedicinesInOrder(db, {m \in db.medicines : m.user_id = user_id})

\* DELETE FROM medicines WHERE id = ? AND user_id = ?; result is rowcount > 0
delete_medicine(db, medicine_id, user_id) ==
    LET gone == {m \in db.medicines : m.id = medicine_id /\ m.user_id = user_id}
    IN  IF Failing(db, "delete_medicine") THEN [db |-> db, result |-> FALSE] ELSE
        [db |-> DropMedicines(db, gone), result |-> gone # {}]

\* a variant whose DELETE names the medicine of the reminder, not the reminder
delete_reminder_with_siblings(db, reminder_id, user_id) ==
    LET mine == {m.id : m \in {x \in db.medicines : x.user_id = user_id}}
        hit  == {r \in db.reminders : r.id = reminder_id /\ r.medicine_id \in mine}
        gone == {r \in db.reminders : r.medicine_id \in {h.medicine_id : h \in hit}}
    IN  IF Failing(db, "delete_reminder") THEN [db |-> db, result |-> FALSE] ELSE
        [db |-> [db EXCEPT !.reminders = @ \ gone], result |-> gone # {}]

\* delete_reminder without the sub-select on the medicines of the user
delete_reminder_of_anyone(db, reminder_id, user_id) ==
    LET gone == {r \in db.reminders : r.id = reminder_id}
        ls   == IF ForeignKeys THEN LogsOfReminders(db, {r.id : r \in gone}) ELSE {}
    IN  IF Failing(db, "delete_reminder") THEN [db |-> db, result |-> FALSE] ELSE
        [db |-> [db EXCEPT !.reminders = @ \ gone, !.reminder_logs = @ \ ls],
         result |-> gone # {}]

\* DELETE FROM reminders WHERE id = ? AND medicine_id IN (medicines of the user)
delete_reminder(db, reminder_id, user_id) ==
    LET mine == {m.id : m \in {x \in db.medicines : x.user_id = user_id}}
        gone == {r \in db.reminders : r.id = reminder_id /\ r.medicine_id \in mine}
        ls   == IF ForeignKeys THEN LogsOfReminders(db, {r.id : r \in gone}) ELSE {}
    IN  IF Failing(db, "delete_reminder") THEN [db |-> db, result |-> FALSE] ELSE
        [db |-> [db EXCEPT !.reminders = @ \ gone, !.reminder_logs = @ \ ls],
         result |-> gone # {}]

\* a variant that counts the reminders of the deleted medicines
delete_all_counting_reminders(db, user_id) ==
    LET gone == {m \in db.medicines : m.user_id = user_id}
    IN  [db |-> DropMedicines(db, gone),
         result |-> Cardinality(RemindersOfMedicines(db, {m.id : m \in gone}))]

\* SELECT COUNT(*) then DELETE FROM medicines WHERE user_id = ?; result is the count
delete_all_user_medicines(db, user_id) ==
    LET gone == {m \in db.medicines : m.user_id = user_id}
    IN  IF Failing(db, "delete_all_user_medicines") THEN [db |-> db, result |-> 0] ELSE
        [db |-> DropMedicines(db, gone), result |-> Cardinality(gone)]

ActiveRowBefore(x, y) ==
    LexLess(x.time, y.time) \/ (x.time = y.time /\ x.reminder_id < y.reminder_id)

RECURSIVE RowsInOrder(_)
RowsInOrder(S) ==
    IF S = {} THEN <<>>
    ELSE LET r == CHOOSE x \in S : \A y \in S \ {x} : ActiveRowBefore(x, y)
         IN  <<r>> \o RowsInOrder(S \ {r})

\* a variant that answers a failing fetch with the rows it read last
active_reminders_despite_failure(db) ==
    RowsInOrder({[reminder_id |-> r.id, time |-> r.time, dosage |-> r.dosage,
                  medicine_name |-> m.name, telegram_id |-> u.telegram_id,
                  timezone |-> u.timezone] :
                 <<r, m, u>> \in {t \in db.reminders \X db.medicines \X db.users :
                                    /\ t[1].active
                                    /\ t[1].medicine_id = t[2].id
                                    /\ t[2].user_id = t[3].telegram_id}})

\* reminders JOIN medicines JOIN users WHERE r.active = 1 ORDER BY r.time
get_all_active_reminders(db) ==
    IF Failing(db, "get_all_active_reminders") THEN <<>> ELSE
    RowsInOrder({[reminder_id |-> r.id, time |-> r.time, dosage |-> r.dosage,
                  medicine_name |-> m.name, telegram_id |-> u.telegram_id,
                  timezone |-> u.timezone] :
                 <<r, m, u>> \in {t \in db.reminders \X db.medicines \X db.users :
                                    /\ t[1].active
                                    /\ t[1].medicine_id = t[2].id
                                    /\ t[2].user_id = t[3].telegram_id}})

\* INSERT INTO reminder_logs (reminder_id); sent_at is CURRENT_TIMESTAMP
log_reminder_sent(db, reminder_id, at) ==
    LET id == db.seq.reminder_logs + 1
    IN  IF Failing(db, "log_reminder_sent") THEN db ELSE
        [db EXCEPT !.reminder_logs = @ \cup
                      {[id |-> id, reminder_id |-> reminder_id, sent_at |-> at]},
                   !.seq.reminder_logs = id]

\* a variant whose window is <minutes> seconds long
recent_logs_in_seconds(db, reminder_id, minutes, at) ==
    {l \in db.reminder_logs : l.reminder_id = reminder_id /\ l.sent_at > at - minutes}

\* rows with datetime(sent_at) > datetime('now', '-<minutes> minutes')
get_recent_reminder_logs(db, reminder_id, minutes, at) ==
    IF Failing(db, "get_recent_reminder_logs") THEN {} ELSE
    {l \in db.reminder_logs : l.reminder_id = reminder_id /\ l.sent_at > at - minutes * 60}


\* ------------------------------------------------------ app/medicine_bot.py
\* senders, and the conversations they hold: ConversationHandler keys its state
\* by (chat id, user id) while context.user_data is kept per user id
Users == {1, 2}

Convs == {<<1, 1>>, <<0, 1>>, <<2, 2>>}

\* no entry of the ConversationHandler: ConversationHandler.END
Idle == "Idle"

\* a handler that returns None (or raises) leaves the conversation where it is
Keep == "Keep"

VARIABLES db, conv, user_data, allowed, budget, last, flow, gone,
          now, pc, wake_at, current_time, scan, restarts, attempts,
          made, chosen, kind, running, tick, bot_token, bot

store_vars == <<db>>

conv_vars == <<conv, user_data, allowed, budget, last, flow, gone, made, chosen>>

engine_vars ==
    <<now, pc, wake_at, current_time, scan, restarts, attempts, kind, running, tick, bot_token, bot>>

vars == <<db, conv, user_data, allowed, budget, last, flow, gone,
          now, pc, wake_at, current_time, scan, restarts, attempts,
          made, chosen, kind, running, tick, bot_token, bot>>

\* context.user_data: a dict, here a function on the keys it holds
EmptyDict == [k \in {} |-> TRUE]

Has(d, k) == k \in DOMAIN d

Put(d, k, v) == [x \in DOMAIN d \cup {k} |-> IF x = k THEN v ELSE d[x]]

\* what a handler does: the state it returns, the user_data and store it leaves,
\* the replies it sends, the store writes it calls and the last write's result
Res(state, ud, d, replies, calls, result) ==
    [state |-> state, ud |-> ud, db |-> d, replies |-> replies, calls |-> calls,
     result |-> result]

\* check_user_access
check_user_access(u) == u \in allowed

Denied(state, ud, d) == Res(state, ud, d, <<"access_denied">>, {}, 0)

start_command(u, text, ud, d) ==
    IF ~check_user_access(u) THEN Denied(Keep, ud, d)
    ELSE IF ~get_user(d, u) THEN Res("SELECTING_TIMEZONE", ud, d, <<"select_timezone">>, {}, 0)
    ELSE Res(Idle, ud, d, <<"main_menu">>, {}, 0)

\* text.split()[0] looked up in the timezone list; raises IndexError on a blank text
handle_timezone_selection(u, text, ud, d) ==
    LET timezone_name == FirstWord(text)
    IN  IF timezone_name = <<>> THEN Res(Keep, ud, d, <<>>, {}, 0)
        ELSE IF Len(timezone_name) = 1 /\ timezone_name[1] \in CityNames
        THEN Res(Idle, ud, add_user(d, u, get_timezone_list[timezone_name[1]]),
                 <<"timezone_set", "main_menu">>, {"add_user"}, 1)
        ELSE Res("SELECTING_TIMEZONE", ud, d, <<"invalid_choice">>, {}, 0)

handle_change_timezone(u, text, ud, d) ==
    IF ~check_user_access(u) THEN Denied(Idle, ud, d)
    ELSE IF ~get_user(d, u) THEN Res(Idle, ud, d, <<"user_not_found", "main_menu">>, {}, 0)
    ELSE Res("CHANGING_TIMEZONE", ud, d, <<"change_timezone">>, {}, 0)

handle_timezone_change_selection(u, text, ud, d) ==
    LET selected      == Remove(Remove(text, MarkCurrent), SufCurrent)
        timezone_name == FirstWord(selected)
    IN  IF text = BtnCancel THEN Res(Idle, ud, d, <<"main_menu">>, {}, 0)
        ELSE IF timezone_name = <<>> THEN Res(Keep, ud, d, <<>>, {}, 0)
        ELSE IF Len(timezone_name) = 1 /\ timezone_name[1] \in CityNames
        THEN Res(Idle, ud, add_user(d, u, get_timezone_list[timezone_name[1]]),
                 <<"timezone_changed", "main_menu">>, {"add_user"}, 1)
        ELSE Res("CHANGING_TIMEZONE", ud, d, <<"invalid_choice">>, {}, 0)

ActiveOf(medicine) == SelectSeq(medicine.reminders, LAMBDA r : r.active)

handle_delete_medicine(u, text, ud, d) ==
    LET medicines == get_user_medicines(d, u)
    IN  IF ~check_user_access(u) THEN Denied(Idle, ud, d)
        ELSE IF medicines = <<>> THEN Res(Idle, ud, d, <<"no_medicines", "main_menu">>, {}, 0)
        ELSE Res("DELETING_MEDICINE_SELECT", Put(ud, "medicines_for_deletion", medicines), d,
                 <<"select_medicine">>, {}, 0)

\* a variant that offers the reminder picker as soon as one reminder is active
selection_with_picker_for_one(u, text, ud, d) ==
    LET number    == Strip(Before(text, "."))
        index     == DecVal(number) - 1
        medicines == IF Has(ud, "medicines_for_deletion") THEN ud["medicines_for_deletion"] ELSE <<>>
        selected  == medicines[index + 1]
    IN  IF text = BtnCancel THEN Res(Idle, ud, d, <<"main_menu">>, {}, 0)
        ELSE IF ~AllDigits(number)
        THEN Res("DELETING_MEDICINE_SELECT", ud, d, <<"invalid_format">>, {}, 0)
        ELSE IF ~(0 <= index /\ index < Len(medicines))
        THEN Res("DELETING_MEDICINE_SELECT", ud, d, <<"invalid_choice">>, {}, 0)
        ELSE IF Len(ActiveOf(selected)) < 1
        THEN Res("CONFIRMING_DELETION",
                 Put(Put(ud, "selected_medicine", selected), "deletion_type", "medicine"), d,
                 <<"confirm_delete_medicine">>, {}, 0)
        ELSE Res("DELETING_REMINDER_SELECT", Put(ud, "selected_medicine", selected), d,
                 <<"select_reminder">>, {}, 0)

\* int(text.split('.')[0]) - 1 indexes the list kept at the start of the flow
handle_medicine_selection_for_deletion(u, text, ud, d) ==
    LET number    == Strip(Before(text, "."))
        index     == DecVal(number) - 1
        medicines == IF Has(ud, "medicines_for_deletion") THEN ud["medicines_for_deletion"] ELSE <<>>
        selected  == medicines[index + 1]
    IN  IF text = BtnCancel THEN Res(Idle, ud, d, <<"main_menu">>, {}, 0)
        ELSE IF ~AllDigits(number)
        THEN Res("DELETING_MEDICINE_SELECT", ud, d, <<"invalid_format">>, {}, 0)
        ELSE IF ~(0 <= index /\ index < Len(medicines))
        THEN Res("DELETING_MEDICINE_SELECT", ud, d, <<"invalid_choice">>, {}, 0)
        ELSE IF Len(ActiveOf(selected)) <= 1
        THEN Res("CONFIRMING_DELETION",
                 Put(Put(ud, "selected_medicine", selected), "deletion_type", "medicine"), d,
                 <<"confirm_delete_medicine">>, {}, 0)
        ELSE Res("DELETING_REMINDER_SELECT", Put(ud, "selected_medicine", selected), d,
                 <<"select_reminder">>, {}, 0)

\* the first reminder of the kept medicine whose time is the time of the caption
handle_reminder_selection_for_deletion(u, text, ud, d) ==
    LET selected_medicine == ud["selected_medicine"]
        time_part         == Before(Tail(text), PfxDeleteReminder)
        reminder_time     == Before(time_part, SepDash)
        found             == SelectSeq(selected_medicine.reminders,
                                       LAMBDA r : r.time = reminder_time /\ r.active)
    IN  IF text = BtnCancel THEN Res(Idle, ud, d, <<"main_menu">>, {}, 0)
        ELSE IF ~Has(ud, "selected_medicine") THEN Res(Idle, ud, d, <<"main_menu">>, {}, 0)
        ELSE IF text[1] = PfxDeleteWhole
        THEN Res("CONFIRMING_DELETION", Put(ud, "deletion_type", "medicine"), d,
                 <<"confirm_delete_medicine">>, {}, 0)
        ELSE IF text[1] = PfxDeleteReminder
        THEN IF found # <<>>
             THEN Res("CONFIRMING_DELETION",
                      Put(Put(ud, "deletion_type", "reminder"), "selected_reminder", found[1]), d,
                      <<"confirm_delete_reminder">>, {}, 0)
             ELSE Res("DELETING_REMINDER_SELECT", ud, d, <<"reminder_not_found">>, {}, 0)
        ELSE Res("DELETING_REMINDER_SELECT", ud, d, <<"invalid_choice">>, {}, 0)

handle_deletion_confirmation(u, text, ud, d) ==
    LET deletion_type == IF Has(ud, "deletion_type") THEN ud["deletion_type"] ELSE "none"
        del_med       == delete_medicine(d, ud["selected_medicine"].id, u)
        del_rem       == delete_reminder(d, ud["selected_reminder"].id, u)
    IN  IF text = BtnCancel THEN Res(Idle, ud, d, <<"main_menu">>, {}, 0)
        ELSE IF text # BtnConfirmDelete
        THEN Res("CONFIRMING_DELETION", ud, d, <<"invalid_choice">>, {}, 0)
        ELSE IF deletion_type = "medicine" /\ Has(ud, "selected_medicine")
        THEN Res(Idle, EmptyDict, del_med.db,
                 <<IF del_med.result THEN "medicine_deleted" ELSE "delete_failed", "main_menu">>,
                 {"delete_medicine"}, IF del_med.result THEN 1 ELSE 0)
        ELSE IF deletion_type = "reminder" /\ Has(ud, "selected_reminder")
        THEN IF del_rem.result /\ ~Has(ud, "selected_medicine")
             THEN Res(Keep, ud, del_rem.db, <<>>, {"delete_reminder"}, 1)
             ELSE Res(Idle, EmptyDict, del_rem.db,
                      <<IF del_rem.result THEN "reminder_deleted" ELSE "delete_failed", "main_menu">>,
                      {"delete_reminder"}, IF del_rem.result THEN 1 ELSE 0)
        ELSE IF deletion_type = "reminder"
        THEN Res(Idle, EmptyDict, d, <<"reminder_not_found", "main_menu">>, {}, 0)
        ELSE Res(Idle, EmptyDict, d, <<"request_error", "main_menu">>, {}, 0)


handle_delete_all_medicines(u, text, ud, d) ==
    IF ~check_user_access(u) THEN Denied(Idle, ud, d)
    ELSE IF get_user_medicines(d, u) = <<>>
    THEN Res(Idle, ud, d, <<"no_medicines", "main_menu">>, {}, 0)
    ELSE Res("CONFIRMING_DELETE_ALL", ud, d, <<"delete_all_warning">>, {}, 0)

\* a variant that deletes on the first confirmation
delete_all_on_first_confirmation(u, text, ud, d) ==
    LET del == delete_all_user_medicines(d, u)
    IN  IF text = BtnNoCancelAll \/ text = BtnNoDontDelete
        THEN Res(Idle, EmptyDict, d, <<"cancelled", "main_menu">>, {}, 0)
        ELSE IF text # BtnYesDeleteAll
        THEN Res("CONFIRMING_DELETE_ALL", ud, d, <<"invalid_choice">>, {}, 0)
        ELSE Res(Idle, EmptyDict, del.db, <<"delete_all_done", "main_menu">>,
                 {"delete_all_user_medicines"}, del.result)

\* both confirmation stages share one state; user_data tells them apart
handle_delete_all_confirmation(u, text, ud, d) ==
    LET del == delete_all_user_medicines(d, u)
    IN  IF Has(ud, "final_delete_all_confirmation") /\ ud["final_delete_all_confirmation"]
        THEN IF text = BtnNoDontDelete
             THEN Res(Idle, EmptyDict, d, <<"cancelled", "main_menu">>, {}, 0)
             ELSE IF text # BtnConfirmToken
             THEN Res("CONFIRMING_DELETE_ALL", ud, d, <<"invalid_choice">>, {}, 0)
             ELSE Res(Idle, EmptyDict, del.db,
                      <<IF del.result > 0 THEN "delete_all_done" ELSE "delete_failed", "main_menu">>,
                      {"delete_all_user_medicines"}, del.result)
        ELSE IF text = BtnNoCancelAll
             THEN Res(Idle, ud, d, <<"cancelled", "main_menu">>, {}, 0)
             ELSE IF text # BtnYesDeleteAll
             THEN Res("CONFIRMING_DELETE_ALL", ud, d, <<"invalid_choice">>, {}, 0)
             ELSE Res("CONFIRMING_DELETE_ALL", Put(ud, "final_delete_all_confirmation", TRUE), d,
                      <<"delete_all_last_check">>, {}, 0)

\* handle_add_medicine without context.user_data.clear()
add_medicine_keeping_draft(u, text, ud, d) ==
    IF ~check_user_access(u) THEN Denied(Idle, ud, d)
    ELSE Res("ADDING_MEDICINE_NAME", ud, d, <<"enter_name">>, {}, 0)

handle_add_medicine(u, text, ud, d) ==
    IF ~check_user_access(u) THEN Denied(Idle, ud, d)
    ELSE Res("ADDING_MEDICINE_NAME", EmptyDict, d, <<"enter_name">>, {}, 0)

\* a variant that stores the medicine as soon as it is named
medicine_name_stored_at_once(u, text, ud, d) ==
    LET medicine_name == Strip(text)
        added         == add_medicine(d, u, medicine_name)
    IN  IF text = BtnCancel THEN Res(Idle, ud, d, <<"main_menu">>, {}, 0)
        ELSE IF medicine_name = <<>> \/ Len(medicine_name) > MaxNameLen
        THEN Res("ADDING_MEDICINE_NAME", ud, d, <<"invalid_name">>, {}, 0)
        ELSE Res("ADDING_MEDICINE_TIME",
                 Put(Put(ud, "medicine_name", medicine_name), "medicine_id", added.result),
                 added.db, <<"enter_time">>, {"add_medicine"}, 0)

handle_medicine_name(u, text, ud, d) ==
    LET medicine_name == Strip(text)
    IN  IF text = BtnCancel THEN Res(Idle, ud, d, <<"main_menu">>, {}, 0)
        ELSE IF medicine_name = <<>> \/ Len(medicine_name) > MaxNameLen
        THEN Res("ADDING_MEDICINE_NAME", ud, d, <<"invalid_name">>, {}, 0)
        ELSE Res("ADDING_MEDICINE_TIME", Put(ud, "medicine_name", medicine_name), d,
                 <<"enter_time">>, {}, 0)

\* the prompt for the dosage reads user_data['medicine_name'] (KeyError when absent)
\* handle_medicine_time keeping a typed time as it was typed
medicine_time_kept_as_typed(u, text, ud, d) ==
    LET time_str == IF text = BtnMorning THEN FormatHHMM(8, 0)
                    ELSE IF text = BtnDay THEN FormatHHMM(14, 0)
                    ELSE IF text = BtnEvening THEN FormatHHMM(20, 0)
                    ELSE Strip(text)
        kept     == Put(ud, "medicine_time", time_str)
    IN  IF text = BtnCancel THEN Res(Idle, ud, d, <<"main_menu">>, {}, 0)
        ELSE IF time_str = None
        THEN Res("ADDING_MEDICINE_TIME", ud, d, <<"invalid_time">>, {}, 0)
        ELSE IF ~Has(ud, "medicine_name") THEN Res(Keep, kept, d, <<>>, {}, 0)
        ELSE Res("ADDING_MEDICINE_DOSAGE", kept, d, <<"enter_dosage">>, {}, 0)

handle_medicine_time(u, text, ud, d) ==
    LET time_str == IF text = BtnMorning THEN FormatHHMM(8, 0)
                    ELSE IF text = BtnDay THEN FormatHHMM(14, 0)
                    ELSE IF text = BtnEvening THEN FormatHHMM(20, 0)
                    ELSE validate_time_format(text)
        kept     == Put(ud, "medicine_time", time_str)
    IN  IF text = BtnCancel THEN Res(Idle, ud, d, <<"main_menu">>, {}, 0)
        ELSE IF time_str = None
        THEN Res("ADDING_MEDICINE_TIME", ud, d, <<"invalid_time">>, {}, 0)
        ELSE IF ~Has(ud, "medicine_name") THEN Res(Keep, kept, d, <<>>, {}, 0)
        ELSE Res("ADDING_MEDICINE_DOSAGE", kept, d, <<"enter_dosage">>, {}, 0)

handle_medicine_dosage(u, text, ud, d) ==
    LET dosage == validate_dosage(text)
        kept   == Put(ud, "medicine_dosage", dosage)
    IN  IF text = BtnCancel THEN Res(Idle, ud, d, <<"main_menu">>, {}, 0)
        ELSE IF dosage = None
        THEN Res("ADDING_MEDICINE_DOSAGE", ud, d, <<"invalid_dosage">>, {}, 0)
        ELSE IF ~Has(ud, "medicine_name") \/ ~Has(ud, "medicine_time")
        THEN Res(Keep, kept, d, <<>>, {}, 0)
        ELSE Res("CONFIRMING_MEDICINE", kept, d, <<"confirm_medicine">>, {}, 0)

\* save: a medicine row only when user_data holds no medicine_id, then the reminder
handle_medicine_confirmation(u, text, ud, d) ==
    LET fresh       == ~Has(ud, "medicine_id")
        added       == add_medicine(d, u, ud["medicine_name"])
        d1          == IF fresh THEN added.db ELSE d
        medicine_id == IF fresh THEN added.result ELSE ud["medicine_id"]
        ud1         == Put(ud, "medicine_id", medicine_id)
        saved       == add_reminder(d1, medicine_id, ud["medicine_time"], ud["medicine_dosage"])
        calls1      == IF fresh THEN {"add_medicine"} ELSE {}
    IN  IF text = BtnCancel THEN Res(Idle, ud, d, <<"main_menu">>, {}, 0)
        ELSE IF text = BtnEdit THEN Res("ADDING_MEDICINE_NAME", ud, d, <<"enter_name">>, {}, 0)
        ELSE IF text # BtnSave THEN Res(Keep, ud, d, <<>>, {}, 0)
        ELSE IF fresh /\ ~Has(ud, "medicine_name") THEN Res(Keep, ud, d, <<>>, {}, 0)
        ELSE IF medicine_id = 0
        THEN Res(Idle, ud1, d1, <<"save_failed", "main_menu">>, calls1, 0)
        ELSE IF ~Has(ud, "medicine_time") \/ ~Has(ud, "medicine_dosage")
        THEN Res(Keep, ud1, d1, <<>>, calls1, 0)
        ELSE IF saved.result
        THEN Res("ADDING_MORE_TIMES", ud1, saved.db, <<"saved_add_more">>,
                 calls1 \cup {"add_reminder"}, 1)
        ELSE Res(Idle, ud1, saved.db, <<"save_failed", "main_menu">>,
                 calls1 \cup {"add_reminder"}, 0)

handle_adding_more_times(u, text, ud, d) ==
    IF text = BtnMainMenu \/ text = BtnNo THEN Res(Idle, EmptyDict, d, <<"main_menu">>, {}, 0)
    ELSE IF text = BtnYes
    THEN IF ~Has(ud, "medicine_name") THEN Res(Keep, ud, d, <<>>, {}, 0)
         ELSE Res("ADDING_MEDICINE_TIME", ud, d, <<"enter_another_time">>, {}, 0)
    ELSE Res(Idle, EmptyDict, d, <<"main_menu">>, {}, 0)

handle_show_medicines(u, text, ud, d) ==
    IF ~check_user_access(u) THEN Denied(Keep, ud, d)
    ELSE Res(Keep, ud, d, <<"medicine_list">>, {}, 0)

handle_help(u, text, ud, d) == Res(Keep, ud, d, <<"help">>, {}, 0)

\* the fallback: the main menu, and user_data is left as it is
handle_cancel(u, text, ud, d) == Res(Idle, ud, d, <<"main_menu">>, {}, 0)

\* the catch-all outside the ConversationHandler: what it returns is dropped
handle_unknown(u, text, ud, d) ==
    IF ~check_user_access(u) THEN Denied(Keep, ud, d)
    ELSE IF text \in {BtnAddMedicine, BtnAddMore}
    THEN [handle_add_medicine(u, text, ud, d) EXCEPT !.state = Keep]
    ELSE IF text = BtnShowMedicines THEN handle_show_medicines(u, text, ud, d)
    ELSE IF text \in {BtnDeleteMedicine, BtnDeleteSelected}
    THEN [handle_delete_medicine(u, text, ud, d) EXCEPT !.state = Keep]
    ELSE IF text = BtnDeleteAll
    THEN [handle_delete_all_medicines(u, text, ud, d) EXCEPT !.state = Keep]
    ELSE IF text = BtnChangeTimezone
    THEN [handle_change_timezone(u, text, ud, d) EXCEPT !.state = Keep]
    ELSE IF text = BtnHelp THEN handle_help(u, text, ud, d)
    ELSE IF text = BtnMainMenu THEN Res(Keep, ud, d, <<"main_menu">>, {}, 0)
    ELSE Res(Keep, ud, d, <<"not_understood", "main_menu">>, {}, 0)


\* ------------------------------------------------- the inbound messages
Garbage == <<"?">>

Probe == {BtnCancel, CmdCancel, CmdStart, Garbage}

\* f"{i}. {name} (...)", the caption of the i-th medicine of the kept list
MedicineButton(i, medicine) == <<Digits[i + 1], ".", " ">> \o medicine.name

ReminderButton(r) == <<PfxDeleteReminder>> \o r.time \o <<SepDash>> \o r.dosage

SeqRange(f) == {f[i] : i \in DOMAIN f}

\* the texts a sender may send in a conversation state: the captions of the
\* keyboard shown there, the cancel inputs and some texts typed by hand
Inputs(state, u) ==
    LET ud == user_data[u]
        ms == IF Has(ud, "medicines_for_deletion") THEN ud["medicines_for_deletion"] ELSE <<>>
        rs == IF Has(ud, "selected_medicine") THEN ActiveOf(ud["selected_medicine"]) ELSE <<>>
        tz == IF get_user(db, u) THEN UserTimezone(db, u) ELSE "none"
    IN  CASE state = Idle ->
               Probe \cup {BtnAddMedicine, BtnChangeTimezone, BtnDeleteMedicine, BtnDeleteAll,
                           BtnShowMedicines, BtnHelp}
          [] state = "SELECTING_TIMEZONE" ->
               Probe \cup {TimezoneLabel(city) : city \in CityNames}
          [] state = "CHANGING_TIMEZONE" ->
               Probe \cup {IF get_timezone_list[city] = tz
                           THEN <<MarkCurrent>> \o TimezoneLabel(city) \o <<SufCurrent>>
                           ELSE TimezoneLabel(city) : city \in CityNames}
          [] state = "ADDING_MEDICINE_NAME" ->
               {BtnCancel, CmdCancel, <<"A">>, <<"B">>, <<" ">>, LongText(MaxNameLen + 1)}
          [] state = "ADDING_MEDICINE_TIME" ->
               {BtnCancel, CmdCancel, BtnMorning, <<"3", ":", "3", "0">>, <<"3", "3", "0">>,
                <<"2", "5">>, Garbage}
          [] state = "ADDING_MEDICINE_DOSAGE" ->
               {BtnCancel, CmdCancel, <<"1", " ", "tab">>, <<"5", "ml">>, <<" ">>,
                LongText(MaxDosageLen + 1)}
          [] state = "CONFIRMING_MEDICINE" -> Probe \cup {BtnSave, BtnEdit}
          [] state = "ADDING_MORE_TIMES" -> Probe \cup {BtnYes, BtnNo, BtnMainMenu}
          [] state = "DELETING_MEDICINE_SELECT" ->
               Probe \cup {MedicineButton(i, ms[i]) : i \in DOMAIN ms} \cup {<<"9", ".">>}
          [] state = "DELETING_REMINDER_SELECT" ->
               Probe \cup {<<PfxDeleteWhole>>} \cup {ReminderButton(r) : r \in SeqRange(rs)}
          [] state = "CONFIRMING_DELETION" -> Probe \cup {BtnConfirmDelete}
          [] state = "CONFIRMING_DELETE_ALL" ->
               Probe \cup {BtnYesDeleteAll, BtnNoCancelAll, BtnConfirmToken, BtnNoDontDelete}

\* the record of the last step when it was a step of the engine: only a skip
\* for a recent log is told apart, a send being kept in attempts
NoMessage(step, rid) ==
    [step |-> step, conv |-> <<0, 0>>, text |-> <<>>, from |-> Idle, replies |-> <<>>,
     calls |-> {}, result |-> 0, flow |-> "none", listed |-> 0, wrote |-> FALSE, rid |-> rid,
     draft |-> EmptyDict, added |-> {}, removed |-> {}, chosen |-> <<>>]

\* where the sender stands in the delete-all flow entered last in conversation c
FlowAfter(c, text, r, handler) ==
    IF handler = "handle_delete_all_medicines" /\ r.state = "CONFIRMING_DELETE_ALL"
    THEN "entered"
    ELSE IF r.state = Idle THEN "none"
    ELSE IF conv[c] = "CONFIRMING_DELETE_ALL" /\ flow[c] = "entered"
            /\ r.replies = <<"delete_all_last_check">>
    THEN "confirmed"
    ELSE flow[c]

\* the medicines delete_medicine has removed, and the reminders that went with
\* them or that delete_reminder has removed: what a cascade has to clear
GoneAfter(r) ==
    LET ms == {m \in db.medicines : m \notin r.db.medicines}
        rs == {x \in db.reminders : x \notin r.db.reminders}
    IN  IF r.calls \cap {"delete_medicine", "delete_reminder"} = {} THEN gone
        ELSE
        [medicines |-> gone.medicines \cup {m.id : m \in ms},
         reminders |-> gone.reminders \cup {x.id : x \in rs}
                         \cup {x.id : x \in RemindersOfMedicines(db, {m.id : m \in ms})}]

\* the medicines the saves of conversation c have created since its add intent
MadeAfter(c, r, handler) ==
    IF r.state = Idle \/ handler = "handle_add_medicine" THEN {}
    ELSE IF handler = "handle_medicine_confirmation"
    THEN made[c] \cup {m.id : m \in r.db.medicines \ db.medicines}
    ELSE made[c]

\* the caption the sender picked last in DELETING_REMINDER_SELECT of conversation c
ChosenAfter(c, text, r, handler) ==
    IF r.state = Idle THEN <<>>
    ELSE IF handler = "handle_reminder_selection_for_deletion" THEN text
    ELSE chosen[c]

\* one update handled by one handler: the Application runs updates one at a time
Deliver(c, text, r, handler) ==
    \E res \in {r} :
        /\ bot = "polling"
        /\ budget > 0
        /\ text \in Inputs(conv[c], c[2])
        /\ budget' = budget - 1
        /\ conv' = [conv EXCEPT ![c] = IF res.state = Keep THEN @ ELSE res.state]
        /\ user_data' = [user_data EXCEPT ![c[2]] = res.ud]
        /\ db' = res.db
        /\ flow' = [flow EXCEPT ![c] = FlowAfter(c, text, res, handler)]
        /\ gone' = GoneAfter(res)
        /\ made' = [made EXCEPT ![c] = MadeAfter(c, res, handler)]
        /\ chosen' = [chosen EXCEPT ![c] = ChosenAfter(c, text, res, handler)]
        /\ last' = [step |-> handler, conv |-> c, text |-> text, from |-> conv[c],
                    replies |-> res.replies, calls |-> res.calls, result |-> res.result,
                    flow |-> flow[c], listed |-> Len(get_user_medicines(db, c[2])),
                    wrote |-> res.db # db, rid |-> 0, draft |-> user_data[c[2]],
                    added |-> res.db.reminders \ db.reminders,
                    removed |-> db.reminders \ res.db.reminders, chosen |-> chosen[c]]
        /\ UNCHANGED <<allowed, engine_vars>>


InState(c, state, text) == conv[c] = state /\ ~IsCommand(text)

\* ---- entry points of the ConversationHandler: tried when no conversation runs
StartCommand(c) ==
    /\ conv[c] = Idle
    /\ Deliver(c, CmdStart, start_command(c[2], CmdStart, user_data[c[2]], db), "start_command")

AddMedicine(c) ==
    \E text \in {BtnAddMedicine, BtnAddMore} :
        /\ conv[c] = Idle
        /\ Deliver(c, text, handle_add_medicine(c[2], text, user_data[c[2]], db),
                   "handle_add_medicine")

ChangeTimezone(c) ==
    /\ conv[c] = Idle
    /\ Deliver(c, BtnChangeTimezone,
               handle_change_timezone(c[2], BtnChangeTimezone, user_data[c[2]], db),
               "handle_change_timezone")

DeleteMedicine(c) ==
    \E text \in {BtnDeleteMedicine, BtnDeleteSelected} :
        /\ conv[c] = Idle
        /\ Deliver(c, text, handle_delete_medicine(c[2], text, user_data[c[2]], db),
                   "handle_delete_medicine")

DeleteAllMedicines(c) ==
    /\ conv[c] = Idle
    /\ Deliver(c, BtnDeleteAll,
               handle_delete_all_medicines(c[2], BtnDeleteAll, user_data[c[2]], db),
               "handle_delete_all_medicines")

\* ---- the handler of each state: filters.TEXT & ~filters.COMMAND
TimezoneSelection(c) ==
    \E text \in Inputs(conv[c], c[2]) :
        /\ InState(c, "SELECTING_TIMEZONE", text)
        /\ Deliver(c, text, handle_timezone_selection(c[2], text, user_data[c[2]], db),
                   "handle_timezone_selection")

TimezoneChangeSelection(c) ==
    \E text \in Inputs(conv[c], c[2]) :
        /\ InState(c, "CHANGING_TIMEZONE", text)
        /\ Deliver(c, text, handle_timezone_change_selection(c[2], text, user_data[c[2]], db),
                   "handle_timezone_change_selection")

MedicineName(c) ==
    \E text \in Inputs(conv[c], c[2]) :
        /\ InState(c, "ADDING_MEDICINE_NAME", text)
        /\ Deliver(c, text, handle_medicine_name(c[2], text, user_data[c[2]], db),
                   "handle_medicine_name")

MedicineTime(c) ==
    \E text \in Inputs(conv[c], c[2]) :
        /\ InState(c, "ADDING_MEDICINE_TIME", text)
        /\ Deliver(c, text, handle_medicine_time(c[2], text, user_data[c[2]], db),
                   "handle_medicine_time")

MedicineDosage(c) ==
    \E text \in Inputs(conv[c], c[2]) :
        /\ InState(c, "ADDING_MEDICINE_DOSAGE", text)
        /\ Deliver(c, text, handle_medicine_dosage(c[2], text, user_data[c[2]], db),
                   "handle_medicine_dosage")

MedicineConfirmation(c) ==
    \E text \in Inputs(conv[c], c[2]) :
        /\ InState(c, "CONFIRMING_MEDICINE", text)
        /\ Deliver(c, text, handle_medicine_confirmation(c[2], text, user_data[c[2]], db),
                   "handle_medicine_confirmation")

AddingMoreTimes(c) ==
    \E text \in Inputs(conv[c], c[2]) :
        /\ InState(c, "ADDING_MORE_TIMES", text)
        /\ Deliver(c, text, handle_adding_more_times(c[2], text, user_data[c[2]], db),
                   "handle_adding_more_times")

MedicineSelectionForDeletion(c) ==
    \E text \in Inputs(conv[c], c[2]) :
        /\ InState(c, "DELETING_MEDICINE_SELECT", text)
        /\ Deliver(c, text,
                   handle_medicine_selection_for_deletion(c[2], text, user_data[c[2]], db),
                   "handle_medicine_selection_for_deletion")

ReminderSelectionForDeletion(c) ==
    \E text \in Inputs(conv[c], c[2]) :
        /\ InState(c, "DELETING_REMINDER_SELECT", text)
        /\ Deliver(c, text,
                   handle_reminder_selection_for_deletion(c[2], text, user_data[c[2]], db),
                   "handle_reminder_selection_for_deletion")

DeletionConfirmation(c) ==
    \E text \in Inputs(conv[c], c[2]) :
        /\ InState(c, "CONFIRMING_DELETION", text)
        /\ Deliver(c, text, handle_deletion_confirmation(c[2], text, user_data[c[2]], db),
                   "handle_deletion_confirmation")

DeleteAllConfirmation(c) ==
    \E text \in Inputs(conv[c], c[2]) :
        /\ InState(c, "CONFIRMING_DELETE_ALL", text)
        /\ Deliver(c, text, handle_delete_all_confirmation(c[2], text, user_data[c[2]], db),
                   "handle_delete_all_confirmation")

\* ---- the fallbacks: reached only by what the handler of the state lets through
Cancel(c) ==
    \E text \in {BtnCancel, CmdCancel} :
        /\ conv[c] # Idle
        /\ ~InState(c, conv[c], text)
        /\ Deliver(c, text, handle_cancel(c[2], text, user_data[c[2]], db), "handle_cancel")

\* ---- the handlers added after the ConversationHandler, all in group 0
ShowMedicines(c) ==
    /\ conv[c] = Idle
    /\ Deliver(c, BtnShowMedicines,
               handle_show_medicines(c[2], BtnShowMedicines, user_data[c[2]], db),
               "handle_show_medicines")

Help(c) ==
    /\ conv[c] = Idle
    /\ Deliver(c, BtnHelp, handle_help(c[2], BtnHelp, user_data[c[2]], db), "handle_help")

EntryCaptions ==
    {BtnAddMedicine, BtnAddMore, BtnChangeTimezone, BtnDeleteMedicine, BtnDeleteSelected,
     BtnDeleteAll}

Unknown(c) ==
    \E text \in Inputs(conv[c], c[2]) :
        /\ conv[c] = Idle
        /\ ~IsCommand(text)
        /\ text \notin EntryCaptions \cup {BtnShowMedicines, BtnHelp}
        /\ Deliver(c, text, handle_unknown(c[2], text, user_data[c[2]], db), "handle_unknown")

\* a command no handler takes: /cancel outside a conversation, /start inside one
Unhandled(c) ==
    \E text \in {CmdStart, CmdCancel} :
        /\ (conv[c] = Idle) = (text = CmdCancel)
        /\ Deliver(c, text, Res(Keep, user_data[c[2]], db, <<>>, {}, 0), "none")

Message(c) ==
    \/ StartCommand(c)
    \/ AddMedicine(c)
    \/ ChangeTimezone(c)
    \/ DeleteMedicine(c)
    \/ DeleteAllMedicines(c)
    \/ TimezoneSelection(c)
    \/ TimezoneChangeSelection(c)
    \/ MedicineName(c)
    \/ MedicineTime(c)
    \/ MedicineDosage(c)
    \/ MedicineConfirmation(c)
    \/ AddingMoreTimes(c)
    \/ MedicineSelectionForDeletion(c)
    \/ ReminderSelectionForDeletion(c)
    \/ DeletionConfirmation(c)
    \/ DeleteAllConfirmation(c)
    \/ Cancel(c)
    \/ ShowMedicines(c)
    \/ Help(c)
    \/ Unknown(c)
    \/ Unhandled(c)


\* ------------------------------------------------------------ the clock
\* instants are seconds since midnight UTC of the day summer time ends; the
\* server's own zone is UTC, so datetime.now() and SQLite's 'now' agree
Base == 30 * 60

DstEnd == 60 * 60

Instants == {Base + 3600 * h + 30 * i : h \in 0..MaxHour, i \in 0..MaxStep}

\* the instants of a behaviour of the scheduler: two minute marks and between
MinuteMarks == {Base + 30 * i : i \in 0..MaxHalfMinutes}

\* pytz: the offset of a zone at an instant
UtcOffset(timezone, t) ==
    IF timezone = "Europe/Kiev" THEN (IF t < DstEnd THEN 3 * 3600 ELSE 2 * 3600)
    ELSE (IF t < DstEnd THEN 2 * 3600 ELSE 3600)

LocalSeconds(timezone, t) == t + UtcOffset(timezone, t)

\* current_time.astimezone(user_tz).strftime("%H:%M")
LocalHHMM(timezone, t) ==
    FormatHHMM((LocalSeconds(timezone, t) \div 3600) % 24, (LocalSeconds(timezone, t) \div 60) % 60)

LocalDay(timezone, t) == LocalSeconds(timezone, t) \div 86400

\* ------------------------------------------------ app/reminder_service.py
\* format_reminder_message and the POST to sendMessage
Notification(row) == [chat_id |-> row.telegram_id, medicine_name |-> row.medicine_name,
                      dosage |-> row.dosage, time |-> row.time]

EngineStep(step, rid) ==
    /\ last' = NoMessage(step, rid)
    /\ UNCHANGED <<conv, user_data, allowed, budget, flow, gone, made, chosen>>

\* kind tells the engine: the loop of reminder_service.py or the cron job of
\* scheduler.py; each is followed on the instants of its own clock
Clock == IF kind = "scheduler" THEN MinuteMarks ELSE Instants

NoTick == [rows |-> <<>>, skipped |-> {}, failed |-> FALSE, after_failed |-> FALSE]

\* time passes while no invocation of check_and_send_reminders runs
Advance ==
    \E t \in Clock :
        /\ pc = "sleeping"
        /\ t > now
        /\ now' = t
        /\ EngineStep("engine", 0)
        /\ UNCHANGED <<db, pc, wake_at, current_time, scan, restarts, attempts, kind, bot_token, bot, running, tick>>

\* check_and_send_reminders, up to the loop: the rows and datetime.now(); a
\* fetch that fails gives no rows, and so does a service built without a token,
\* which has no self.db: the AttributeError ends the invocation
Begin ==
    /\ scan' = IF bot_token THEN get_all_active_reminders(db) ELSE <<>>
    /\ current_time' = now
    /\ pc' = "scanning"
    /\ running' = running + 1
    /\ tick' = [rows |-> IF bot_token THEN get_all_active_reminders(db) ELSE <<>>,
                skipped |-> {},
                failed |-> ~bot_token \/ Failing(db, "get_all_active_reminders"),
                after_failed |-> tick.failed]
    /\ EngineStep("engine", 0)
    /\ UNCHANGED <<db, now, restarts, attempts, kind, bot_token, bot>>

\* run_reminder_loop: the next invocation is awaited after the sleep
TickStart ==
    /\ kind = "loop"
    /\ pc = "sleeping"
    /\ now >= wake_at
    /\ Begin
    /\ UNCHANGED wake_at

\* a variant of the cron job that starts an invocation whatever is running
fire_without_instance_limit ==
    /\ kind = "scheduler"
    /\ now % 60 = 0
    /\ now >= wake_at
    /\ Begin
    /\ wake_at' = now + 60

\* CronTrigger(second=0): the job is run at the start of a minute unless
\* max_instances invocations of it are running
Fire ==
    /\ kind = "scheduler"
    /\ now % 60 = 0
    /\ now >= wake_at
    /\ running < MaxInstances
    /\ Begin
    /\ wake_at' = now + 60

\* the run of this minute is skipped: maximum number of running instances reached
Skip ==
    /\ kind = "scheduler"
    /\ now % 60 = 0
    /\ now >= wake_at
    /\ running >= MaxInstances
    /\ wake_at' = now + 60
    /\ EngineStep("max_instances", 0)
    /\ UNCHANGED <<db, now, pc, current_time, scan, restarts, attempts, kind, bot_token, bot, running, tick>>

\* a variant that formats the instant of the comparison, not that of the tick
due_at_the_comparison(row) == LocalHHMM(row.timezone, now) = row.time

Due(row) == LocalHHMM(row.timezone, current_time) = row.time

\* one pass of the loop body for a reminder that is not due
NotDue ==
    /\ pc = "scanning"
    /\ scan # <<>>
    /\ ~Due(Head(scan))
    /\ scan' = Tail(scan)
    /\ EngineStep("engine", 0)
    /\ UNCHANGED <<db, now, pc, wake_at, current_time, restarts, attempts, kind, bot_token, bot, running, tick>>

\* one pass for a due reminder that has a recent log: continue (the loop only)
DedupSkip ==
    /\ kind = "loop"
    /\ pc = "scanning"
    /\ scan # <<>>
    /\ Due(Head(scan))
    /\ get_recent_reminder_logs(db, Head(scan).reminder_id, DedupMinutes, now) # {}
    /\ scan' = Tail(scan)
    /\ tick' = [tick EXCEPT !.skipped = @ \cup {Head(scan).reminder_id}]
    /\ EngineStep("dedup_skip", Head(scan).reminder_id)
    /\ UNCHANGED <<db, now, pc, wake_at, current_time, restarts, attempts, kind, bot_token, bot, running>>

\* the Notifier invocation of this pass, as attempts records it
Attempt(row, ok, t) ==
    [reminder_id |-> row.reminder_id, ref |-> current_time, run |-> restarts,
     at |-> now, ok |-> ok, sent_at |-> t,
     day |-> LocalDay(row.timezone, current_time), message |-> Notification(row)]

\* the pass ends with the send it made: on to the next reminder
Sent(row, ok, t, logged) ==
    /\ pc = "scanning"
    /\ scan # <<>>
    /\ Due(row)
    /\ kind = "loop" => get_recent_reminder_logs(db, row.reminder_id, DedupMinutes, now) = {}
    /\ Len(attempts) < MaxAttempts
    /\ now <= t /\ t <= now + SendTimeout
    /\ now' = t
    /\ db' = IF logged THEN log_reminder_sent(db, row.reminder_id, t) ELSE db
    /\ attempts' = Append(attempts, Attempt(row, ok, t))
    /\ EngineStep("engine", 0)
    /\ UNCHANGED <<pc, wake_at, current_time, restarts, kind, bot_token, bot, running, tick>>

\* a variant that logs the reminder whatever the send returned
send_logging_every_attempt ==
    \E ok \in BOOLEAN, t \in Clock :
        /\ Sent(Head(scan), ok, t, TRUE)
        /\ scan' = Tail(scan)

\* a variant in which a failed send ends the invocation
send_aborting_on_failure ==
    \E ok \in BOOLEAN, t \in Clock :
        /\ Sent(Head(scan), ok, t, ok)
        /\ scan' = IF ok THEN Tail(scan) ELSE <<>>

\* one pass for a due reminder without a recent log: send_message (or
\* bot.send_message), and log_reminder_sent when it succeeded; it ends at t
Send ==
    \E ok \in BOOLEAN, t \in Clock :
        /\ Sent(Head(scan), ok, t, ok)
        /\ scan' = Tail(scan)

\* the invocation is over; the loop then sleeps: asyncio.sleep(60)
TickEnd ==
    /\ pc = "scanning"
    /\ scan = <<>>
    /\ pc' = "sleeping"
    /\ wake_at' = IF kind = "loop" THEN now + SleepSeconds ELSE wake_at
    /\ running' = running - 1
    /\ EngineStep("engine", 0)
    /\ UNCHANGED <<db, now, current_time, scan, restarts, attempts, kind, bot_token, bot, tick>>

\* the process is stopped and started again: main() runs a tick at once, the
\* scheduler waits for the next start of a minute
Restart ==
    /\ restarts < MaxRestarts
    /\ restarts' = restarts + 1
    /\ pc' = "sleeping"
    /\ wake_at' = IF kind = "loop" THEN now ELSE ((now \div 60) + 1) * 60
    /\ scan' = <<>>
    /\ running' = 0
    /\ tick' = NoTick
    /\ EngineStep("engine", 0)
    /\ UNCHANGED <<db, now, current_time, attempts, kind, bot_token, bot>>

Engine == Advance \/ TickStart \/ NotDue \/ DedupSkip \/ Send \/ TickEnd \/ Restart

\* ------------------------------------------------------- the stores to start from
Name(a) == Strip(<<a>>)

Time(h, m) == validate_time_format(FormatHHMM(h, m))

Dose == validate_dosage(<<"1", " ", "tab">>)

WithMedicine(d, user_id, name, times) ==
    LET m == add_medicine(d, user_id, name)
        RECURSIVE Add(_, _)
        Add(x, ts) == IF ts = <<>> THEN x
                      ELSE Add(add_reminder(x, m.result, Head(ts), Dose).db, Tail(ts))
    IN  Add(m.db, times)

\* one user in Kyiv with one medicine taken at 03:30
SeedOne == WithMedicine(add_user(EmptyStore, 1, "Europe/Kiev"), 1, Name("A"), <<Time(3, 30)>>)

\* two users; the first holds two medicines, one of them with two reminders and
\* a delivery record
SeedTwice ==
    WithMedicine(add_user(EmptyStore, 1, "Europe/Kiev"), 1, Name("A"), <<Time(3, 30), Time(8, 0)>>)

SeedTwo == WithMedicine(SeedTwice, 1, Name("B"), <<Time(8, 0)>>)

SeedUsers == WithMedicine(add_user(SeedTwo, 2, "Europe/Vienna"), 2, Name("A"), <<Time(3, 30)>>)

SeedMany == log_reminder_sent(SeedUsers, 1, Base)

\* one medicine taken at 08:00 in two dosages: the add flow, answered 'yes',
\* takes the same time again with another dosage
SeedSameTime ==
    add_reminder(add_reminder(SeedOne, 1, Time(8, 0), Dose).db,
                 1, Time(8, 0), validate_dosage(<<"5", "ml">>)).db

\* two users whose reminders fall due at the same instant
SeedEngine ==
    WithMedicine(add_user(SeedOne, 2, "Europe/Vienna"), 2, Name("B"), <<Time(2, 30)>>)

InitIdle ==
    /\ conv = [c \in Convs |-> Idle]
    /\ user_data = [u \in Users |-> EmptyDict]
    /\ made = [c \in Convs |-> {}]
    /\ chosen = [c \in Convs |-> <<>>]

\* the reminder service is about to start its first tick
InitService ==
    /\ flow = [c \in Convs |-> "none"]
    /\ gone = [medicines |-> {}, reminders |-> {}]
    /\ last = NoMessage("init", 0)
    /\ now = Base
    /\ pc = "sleeping"
    /\ wake_at = Base
    /\ current_time = Base
    /\ scan = <<>>
    /\ restarts = 0
    /\ attempts = <<>>
    /\ running = 0
    /\ tick = NoTick
    /\ bot_token = TRUE
    /\ bot = "polling"

\* a conversation three messages into the add flow: the intent, a name, a time
Intending == handle_add_medicine(1, BtnAddMedicine, EmptyDict, SeedOne)

\* each next message of that conversation is handled on what the last one left
Naming ==
    CHOOSE r \in {handle_medicine_name(1, <<"B">>, x.ud, x.db) : x \in {Intending}} : TRUE

Drafting ==
    CHOOSE r \in {handle_medicine_time(1, <<"3", ":", "3", "0">>, x.ud, x.db) : x \in {Naming}} : TRUE

\* the same conversation further on: a dosage, the save, 'yes' to another
\* time, a second time, and (Repeating) its dosage
Dosed ==
    CHOOSE r \in {handle_medicine_dosage(1, <<"5", "ml">>, x.ud, x.db) : x \in {Drafting}} : TRUE

SavedOnce ==
    CHOOSE r \in {handle_medicine_confirmation(1, BtnSave, x.ud, x.db) : x \in {Dosed}} : TRUE

AskedMore ==
    CHOOSE r \in {handle_adding_more_times(1, BtnYes, x.ud, x.db) : x \in {SavedOnce}} : TRUE

Retimed ==
    CHOOSE r \in {handle_medicine_time(1, BtnMorning, x.ud, x.db) : x \in {AskedMore}} : TRUE

Repeating ==
    CHOOSE r \in {handle_medicine_dosage(1, <<"1", " ", "tab">>, x.ud, x.db) : x \in {Retimed}} : TRUE

\* the same draft of a sender who is allowed but has no row in users: the add
\* intent, the name and the time are handled without a look at the store
Newcomer == [Drafting EXCEPT !.db = EmptyStore]

\* the same draft of a sender whose only medicine was deleted before
Returning == [Drafting EXCEPT !.db = delete_medicine(SeedOne, 1, 1).db]

\* the first conversation in the add flow, where the handlers r have left it
InFlow(r) ==
    /\ db = r.db
    /\ conv = [c \in Convs |-> IF c = <<1, 1>> THEN r.state ELSE Idle]
    /\ user_data = [u \in Users |-> IF u = 1 THEN r.ud ELSE EmptyDict]
    /\ made = [c \in Convs |-> IF c = <<1, 1>> THEN {m.id : m \in r.db.medicines \ SeedOne.medicines}
                                ELSE {}]
    /\ chosen = [c \in Convs |-> <<>>]

\* the bot: the conversations, over a store that earlier conversations left,
\* all of them idle or the first one in the middle of the add flow
Init ==
    /\ InitService
    /\ kind = "loop"
    /\ allowed \in {Users, {1}}
    /\ budget = MaxMsgs
    /\ \/ /\ db \in {EmptyStore, SeedOne, SeedMany}
          /\ InitIdle
       \/ InFlow(Drafting)

Next == \E c \in Convs : Message(c)

Spec == Init /\ [][Next]_vars

\* the reminder service beside the bot: ticks, restarts, and the owner changing zone
InitEngine ==
    /\ InitService
    /\ InitIdle
    /\ kind = "loop"
    /\ db \in {SeedOne, SeedEngine}
    /\ allowed = Users
    /\ budget = MaxEngMsgs

NextEngine ==
    \/ Engine
    \/ \E c \in {<<1, 1>>} : ChangeTimezone(c) \/ TimezoneChangeSelection(c)

SpecEngine == InitEngine /\ [][NextEngine]_vars

\* MedicineBot.__init__ and run: without a token the process exits with status 1
BotInit ==
    /\ bot = "starting"
    /\ bot' = IF bot_token THEN "polling" ELSE "failed_exit"
    /\ last' = NoMessage("MedicineBot.__init__", 0)
    /\ UNCHANGED <<db, conv, user_data, allowed, budget, flow, gone, made, chosen, bot_token,
                   now, pc, wake_at, current_time, scan, restarts, attempts, kind, running, tick>>

\* ReminderService.__init__ and main: without a token __init__ returns early,
\* and main awaits run_reminder_loop of the service all the same
ServiceInit ==
    /\ pc = "starting"
    /\ pc' = "sleeping"
    /\ wake_at' = now
    /\ last' = NoMessage("ReminderService.__init__", 0)
    /\ UNCHANGED <<db, conv, user_data, allowed, budget, flow, gone, made, chosen, bot_token,
                   bot, now, current_time, scan, restarts, attempts, kind, running, tick>>

\* the two processes being started, with the token file there or not
InitStartup ==
    /\ InitIdle
    /\ flow = [c \in Convs |-> "none"]
    /\ gone = [medicines |-> {}, reminders |-> {}]
    /\ last = NoMessage("init", 0)
    /\ db = SeedMany
    /\ allowed = Users
    /\ budget = MaxEngMsgs
    /\ kind = "loop"
    /\ now = Base
    /\ pc = "starting"
    /\ wake_at = Base
    /\ current_time = Base
    /\ scan = <<>>
    /\ restarts = 0
    /\ attempts = <<>>
    /\ running = 0
    /\ tick = NoTick
    /\ bot_token \in BOOLEAN
    /\ bot = "starting"

NextStartup ==
    \/ BotInit
    \/ ServiceInit
    \/ Advance
    \/ TickStart
    \/ NotDue
    \/ DedupSkip
    \/ Send
    \/ TickEnd
    \/ \E c \in {<<1, 1>>} : StartCommand(c) \/ ShowMedicines(c)

SpecStartup == InitStartup /\ [][NextStartup]_vars

\* ---- either engine followed over a few minutes, send by send: a send
\* returns at once or hangs until the timeout of the client
\* two users whose reminders fall due one minute apart, the earlier row first
SeedNextMinute ==
    WithMedicine(WithMedicine(add_user(add_user(EmptyStore, 1, "Europe/Kiev"), 2, "Europe/Vienna"),
                              2, Name("B"), <<Time(2, 30)>>),
                 1, Name("A"), <<Time(3, 31)>>)

HangEnd == Base + 60 * MaxMinutes

\* asyncio.sleep(60) is over
Sleep ==
    /\ pc = "sleeping"
    /\ now < wake_at
    /\ wake_at <= HangEnd
    /\ now' = wake_at
    /\ EngineStep("engine", 0)
    /\ UNCHANGED <<db, pc, wake_at, current_time, scan, restarts, attempts, kind, bot_token, bot,
                   running, tick>>

\* send_message answers at once, with status 200 or not
Prompt ==
    \E ok \in BOOLEAN :
        /\ Sent(Head(scan), ok, now, ok)
        /\ scan' = Tail(scan)

\* send_message hangs: httpx.TimeoutException after timeout=30.0, False returned
Hang ==
    /\ Sent(Head(scan), FALSE, now + SendTimeout, FALSE)
    /\ scan' = Tail(scan)

InitHang ==
    /\ InitIdle
    /\ flow = [c \in Convs |-> "none"]
    /\ gone = [medicines |-> {}, reminders |-> {}]
    /\ last = NoMessage("init", 0)
    /\ db \in {SeedNextMinute, SeedEngine, SeedMany}
    /\ allowed = Users
    /\ budget = 0
    /\ kind \in {"loop", "scheduler"}
    /\ now \in {Base, Base + SendTimeout}
    /\ pc = "sleeping"
    /\ wake_at = IF kind = "loop" THEN now ELSE ((now + 59) \div 60) * 60
    /\ current_time = now
    /\ scan = <<>>
    /\ restarts = 0
    /\ attempts = <<>>
    /\ running = 0
    /\ tick = NoTick
    /\ bot_token = TRUE
    /\ bot = "polling"

NextHang ==
    Sleep \/ TickStart \/ Fire \/ Skip \/ NotDue \/ DedupSkip \/ Prompt \/ Hang \/ TickEnd

SpecHang == InitHang /\ [][NextHang]_vars

\* validate_time_format applied to texts typed by hand
TimeChars == {"0", "2", "3", "4", "6", ":", " ", "x"}

RECURSIVE TextsOf(_, _)
TextsOf(chars, n) ==
    IF n = 0 THEN {<<>>}
    ELSE LET shorter == TextsOf(chars, n - 1)
         IN  shorter \cup {t \o <<c>> : t \in {x \in shorter : Len(x) = n - 1}, c \in chars}

TimeTexts == TextsOf(TimeChars, MaxTimeLen)

Applied(step, text) ==
    [NoMessage(step, 0) EXCEPT !.text = text, !.result = validate_time_format(text)]

NormalizeTime ==
    /\ last.step = "typed"
    /\ last' = Applied("validate_time_format", last.text)
    /\ UNCHANGED <<db, conv, user_data, allowed, budget, flow, gone, made, chosen, engine_vars>>

\* the value returned is given to validate_time_format once more
NormalizeAgain ==
    /\ last.step = "validate_time_format"
    /\ last.result # None
    /\ last' = Applied("normalized_again", last.result)
    /\ UNCHANGED <<db, conv, user_data, allowed, budget, flow, gone, made, chosen, engine_vars>>

InitTime ==
    /\ \E text \in TimeTexts : last = [NoMessage("typed", 0) EXCEPT !.text = text]
    /\ InitIdle
    /\ flow = [c \in Convs |-> "none"]
    /\ gone = [medicines |-> {}, reminders |-> {}]
    /\ db = EmptyStore
    /\ allowed = Users
    /\ budget = 0
    /\ kind = "loop"
    /\ now = Base
    /\ pc = "sleeping"
    /\ wake_at = Base
    /\ current_time = Base
    /\ scan = <<>>
    /\ restarts = 0
    /\ attempts = <<>>
    /\ running = 0
    /\ tick = NoTick
    /\ bot_token = TRUE
    /\ bot = "polling"

NextTime == NormalizeTime \/ NormalizeAgain

SpecTime == InitTime /\ [][NextTime]_vars

\* ---- the loop beside the bot: a user deletes while a tick may be under way
\* (the service and the bot are two processes over one database file)
InitRace ==
    /\ InitService
    /\ InitIdle
    /\ kind = "loop"
    /\ db \in {SeedEngine, SeedMany}
    /\ allowed = Users
    /\ budget = MaxMsgs

NextRace ==
    \/ Advance
    \/ TickStart
    \/ NotDue
    \/ DedupSkip
    \/ Send
    \/ TickEnd
    \/ \E c \in {<<1, 1>>} :
          \/ DeleteMedicine(c)
          \/ MedicineSelectionForDeletion(c)
          \/ ReminderSelectionForDeletion(c)
          \/ DeletionConfirmation(c)

SpecRace == InitRace /\ [][NextRace]_vars

\* ---- the add flow taken back to the name: after the save of a first
\* reminder and a second time and dosage, 'edit', and then another name
Edited ==
    CHOOSE r \in {handle_medicine_confirmation(1, BtnEdit, x.ud, x.db) : x \in {Repeating}} : TRUE

Renamed ==
    CHOOSE r \in {handle_medicine_name(1, <<"C">>, x.ud, x.db) : x \in {Edited}} : TRUE

InitEdit ==
    /\ InitService
    /\ kind = "loop"
    /\ allowed = Users
    /\ budget = MaxMsgs
    /\ \/ InFlow(Drafting)
       \/ InFlow(Repeating)
       \/ InFlow(Renamed)

NextEdit ==
    \E c \in {<<1, 1>>} :
        \/ MedicineName(c)
        \/ MedicineTime(c)
        \/ MedicineDosage(c)
        \/ MedicineConfirmation(c)
        \/ AddingMoreTimes(c)

SpecEdit == InitEdit /\ [][NextEdit]_vars

\* ---- the two engines side by side: check_and_send_reminders of
\* reminder_service.py and of scheduler.py run at the same instants, each over
\* its own copy of one store, with the same answers of the Notifier
MaxTicks == 2

\* the body of the for loop for one row at the reference instant t; only the
\* loop of reminder_service.py asks for recent logs before it sends
one_reminder(k, run, row, t, ok) ==
    LET rid    == row.reminder_id
        recent == get_recent_reminder_logs(run.db, rid, DedupMinutes, t)
    IN  IF LocalHHMM(row.timezone, t) # row.time THEN run
        ELSE IF k = "loop" /\ recent # {} THEN run
        ELSE [db   |-> IF ok[rid] THEN log_reminder_sent(run.db, rid, t) ELSE run.db,
              sent |-> Append(run.sent, rid)]

RECURSIVE for_reminders(_, _, _, _, _)
for_reminders(k, run, rows, t, ok) ==
    IF rows = <<>> THEN run
    ELSE for_reminders(k, one_reminder(k, run, Head(rows), t, ok), Tail(rows), t, ok)

\* one invocation: the rows are read once, then the loop over them
check_and_send_reminders(k, run, t, ok) ==
    for_reminders(k, run, get_all_active_reminders(run.db), t, ok)

\* both engines before their first tick: the same store, nothing sent
Twin(d) ==
    [loop      |-> [db |-> d, sent |-> <<>>],
     scheduler |-> [db |-> d, sent |-> <<>>],
     ticks     |-> 0]

\* a tick of both engines at the instant now; ok tells, reminder by reminder,
\* what the Notifier answers in this tick
TickOfBoth ==
    \E ok \in [{r.id : r \in db.reminders} -> BOOLEAN] :
        /\ last.step \in {"engines", "tick_of_both"}
        /\ last.result.ticks < MaxTicks
        /\ last' = [last EXCEPT
                      !.step = "tick_of_both",
                      !.result = [loop      |-> check_and_send_reminders("loop", @.loop, now, ok),
                                  scheduler |-> check_and_send_reminders("scheduler", @.scheduler,
                                                                         now, ok),
                                  ticks     |-> @.ticks + 1]]
        /\ UNCHANGED <<db, conv, user_data, allowed, budget, flow, gone, made, chosen, engine_vars>>

\* time passes between two ticks
Wait ==
    \E t \in Instants :
        /\ t > now
        /\ now' = t
        /\ UNCHANGED <<db, conv, user_data, allowed, budget, last, flow, gone, made, chosen,
                       pc, wake_at, current_time, scan, restarts, attempts, kind, running, tick,
                       bot_token, bot>>

InitTwin ==
    /\ InitIdle
    /\ flow = [c \in Convs |-> "none"]
    /\ gone = [medicines |-> {}, reminders |-> {}]
    /\ db \in {SeedNextMinute, SeedEngine, SeedMany}
    /\ last = [NoMessage("engines", 0) EXCEPT !.result = Twin(db)]
    /\ allowed = Users
    /\ budget = 0
    /\ kind = "loop"
    /\ now \in Instants
    /\ pc = "sleeping"
    /\ wake_at = now
    /\ current_time = now
    /\ scan = <<>>
    /\ restarts = 0
    /\ attempts = <<>>
    /\ running = 0
    /\ tick = NoTick
    /\ bot_token = TRUE
    /\ bot = "polling"

NextTwin == TickOfBoth \/ Wait

SpecTwin == InitTwin /\ [][NextTwin]_vars

\* ---- the loop on its own with a Notifier that always succeeds: each send
\* is answered with status 200, at once or after a while
Answer ==
    /\ Sent(Head(scan), TRUE, now, TRUE)
    /\ scan' = Tail(scan)

\* the answer takes SendTimeout seconds in all: timeout=30.0 bounds each phase
\* of the request (connect, write, read), not the request as a whole
Slow ==
    /\ Sent(Head(scan), TRUE, now + SendTimeout, TRUE)
    /\ scan' = Tail(scan)

InitLoop ==
    /\ InitIdle
    /\ flow = [c \in Convs |-> "none"]
    /\ gone = [medicines |-> {}, reminders |-> {}]
    /\ last = NoMessage("init", 0)
    /\ db \in {SeedNextMinute, SeedEngine, SeedMany}
    /\ allowed = Users
    /\ budget = 0
    /\ kind = "loop"
    /\ now \in {Base, Base + SendTimeout}
    /\ pc = "sleeping"
    /\ wake_at = now
    /\ current_time = now
    /\ scan = <<>>
    /\ restarts = 0
    /\ attempts = <<>>
    /\ running = 0
    /\ tick = NoTick
    /\ bot_token = TRUE
    /\ bot = "polling"

NextLoop == Sleep \/ TickStart \/ NotDue \/ DedupSkip \/ Answer \/ Slow \/ TickEnd

\* the event loop runs the coroutine whenever it can go on: a sleep that is
\* over returns, a request is answered, the next statement is executed
SpecLoop == InitLoop /\ [][NextLoop]_vars /\ WF_vars(NextLoop)

\* manage_users.py, remove_user: the administrator takes a user off
\* config/allowed_users.txt, which check_user_access reads anew on every call
remove_user ==
    /\ \E u \in allowed : allowed' = allowed \ {u}
    /\ last' = NoMessage("remove_user", 0)
    /\ UNCHANGED <<db, conv, user_data, budget, flow, gone, made, chosen, engine_vars>>

\* one conversation while the administrator edits the list of allowed users
InitAccess ==
    /\ InitService
    /\ kind = "loop"
    /\ allowed = Users
    /\ budget = MaxMsgs
    /\ \/ /\ db = SeedOne
          /\ InitIdle
       \/ InFlow(Drafting)
       \/ InFlow(AskedMore)
       \/ InFlow(Newcomer)
       \/ InFlow(Returning)

NextAccess ==
    \/ remove_user
    \/ \E c \in {<<1, 1>>} :
          \/ StartCommand(c)
          \/ AddMedicine(c)
          \/ MedicineName(c)
          \/ MedicineTime(c)
          \/ MedicineDosage(c)
          \/ MedicineConfirmation(c)
          \/ AddingMoreTimes(c)
          \/ ShowMedicines(c)
          \/ Unknown(c)

SpecAccess == InitAccess /\ [][NextAccess]_vars

\* one user writing to the bot in two chats while an add flow is under way
InitChats ==
    /\ InitService
    /\ kind = "loop"
    /\ allowed = Users
    /\ budget = MaxMsgs
    /\ \/ InFlow(Drafting)
       \/ InFlow(Repeating)

NextChats ==
    \E c \in {<<1, 1>>, <<0, 1>>} :
        \/ AddMedicine(c)
        \/ MedicineName(c)
        \/ MedicineTime(c)
        \/ MedicineDosage(c)
        \/ MedicineConfirmation(c)
        \/ AddingMoreTimes(c)
        \/ Cancel(c)

SpecChats == InitChats /\ [][NextChats]_vars

\* the store starts to fail: a Database method raises sqlite3.Error from now on
FaultSets == {{"add_medicine"}, {"add_reminder"}, {"delete_medicine"}, {"delete_reminder"}}

StoreFails ==
    /\ db.fault = {}
    /\ \E methods \in FaultSets : db' = [db EXCEPT !.fault = methods]
    /\ last' = NoMessage("store_fails", 0)
    /\ UNCHANGED <<conv, user_data, allowed, budget, flow, gone, made, chosen, engine_vars>>

\* the add flow and the delete flow of one conversation over a store that may fail
InitFaulty ==
    /\ InitService
    /\ kind = "loop"
    /\ allowed = Users
    /\ budget = MaxMsgs
    /\ \/ /\ db \in {SeedMany, SeedSameTime}
          /\ InitIdle
       \/ InFlow(Drafting)
       \/ InFlow(Repeating)

NextFaulty ==
    \/ StoreFails
    \/ \E c \in {<<1, 1>>} :
          \/ AddMedicine(c)
          \/ MedicineName(c)
          \/ MedicineTime(c)
          \/ MedicineDosage(c)
          \/ MedicineConfirmation(c)
          \/ AddingMoreTimes(c)
          \/ DeleteMedicine(c)
          \/ MedicineSelectionForDeletion(c)
          \/ ReminderSelectionForDeletion(c)
          \/ DeletionConfirmation(c)

SpecFaulty == InitFaulty /\ [][NextFaulty]_vars

\* the store fails, or works again, for the methods the engines call
DeliveryFaults ==
    {{}, {"get_all_active_reminders"}, {"log_reminder_sent"}, {"get_recent_reminder_logs"}}

Outage ==
    /\ \E methods \in DeliveryFaults \ {db.fault} : db' = [db EXCEPT !.fault = methods]
    /\ EngineStep("engine", 0)
    /\ UNCHANGED engine_vars

\* either engine on its own, over a store that may fail and recover
InitDelivery ==
    /\ InitService
    /\ InitIdle
    /\ kind \in {"loop", "scheduler"}
    /\ db = SeedEngine
    /\ allowed = Users
    /\ budget = 0

NextDelivery ==
    \/ Advance
    \/ TickStart
    \/ Fire
    \/ Skip
    \/ NotDue
    \/ DedupSkip
    \/ Send
    \/ TickEnd
    \/ Restart
    \/ Outage

SpecDelivery == InitDelivery /\ [][NextDelivery]_vars

\* ------------------------------------------------------------------ claims
Window == DedupMinutes * 60

AttemptsOf(rid) == {i \in DOMAIN attempts : attempts[i].reminder_id = rid}

LogsOf(rid) == {l \in db.reminder_logs : l.reminder_id = rid}

C2_OncePerDay ==
    \A i, j \in DOMAIN attempts :
        (i < j /\ attempts[i].reminder_id = attempts[j].reminder_id
               /\ attempts[i].ok /\ attempts[j].ok)
            => attempts[i].day # attempts[j].day

\* C3: delete_all_user_medicines is called only when, in the delete-all flow
\* entered last in that conversation, the first confirmation was given before
\* the token.
C3_TokenNeedsFirstConfirmation ==
    "delete_all_user_medicines" \in last.calls => last.flow = "confirmed"

TokenAccepted(c, text) ==
    /\ conv[c] = "CONFIRMING_DELETE_ALL"
    /\ Has(user_data[c[2]], "final_delete_all_confirmation")
    /\ text = BtnConfirmToken

StoreRows(d) == <<d.medicines, d.reminders, d.reminder_logs>>

\* C4: while a conversation is in the delete-all flow, an input sent in it
\* that is not the token accepted at the last stage leaves every medicine,
\* reminder and delivery record as it was.
C4_NothingDeletedBeforeToken ==
    [][\A c \in Convs :
          (/\ conv[c] = "CONFIRMING_DELETE_ALL"
           /\ budget' < budget
           /\ last'.conv = c
           /\ ~TokenAccepted(c, last'.text))
              => StoreRows(db') = StoreRows(db)]_vars

\* the first confirmation has been taken and the medicines are still there
C4_Witness ==
    /\ last.from = "CONFIRMING_DELETE_ALL"
    /\ last.text = BtnYesDeleteAll
    /\ last.replies = <<"delete_all_last_check">>
    /\ conv[last.conv] = "CONFIRMING_DELETE_ALL"
    /\ get_user_medicines(db, last.conv[2]) # <<>>

\* C5: when the token is accepted, delete_all_user_medicines returns the
\* number of medicines the user's listing held just before, and the listing
\* is empty afterwards.
C5_DeleteAllCount ==
    "delete_all_user_medicines" \in last.calls
        => /\ last.result = last.listed
           /\ get_user_medicines(db, last.conv[2]) = <<>>

\* the token has been accepted for a user who held two medicines
C5_Witness ==
    /\ "delete_all_user_medicines" \in last.calls
    /\ last.text = BtnConfirmToken
    /\ last.result = 2

\* C6: no reminder of a medicine that delete_medicine has removed remains, and
\* no delivery record of a reminder removed with it or by delete_reminder
\* remains.
C6_Cascade ==
    /\ \A r \in db.reminders : r.medicine_id \notin gone.medicines
    /\ \A l \in db.reminder_logs : l.reminder_id \notin gone.reminders

WritingTransition(l) ==
    \/ l.from = "CONFIRMING_MEDICINE" /\ l.text = BtnSave
    \/ l.from = "CONFIRMING_DELETION" /\ l.text = BtnConfirmDelete
    \/ l.from = "CONFIRMING_DELETE_ALL" /\ l.text = BtnConfirmToken

\* C7: a message changes the medicines, the reminders or the delivery records
\* only when it is the save in CONFIRMING_MEDICINE, the confirmation in
\* CONFIRMING_DELETION or the token in CONFIRMING_DELETE_ALL.
C7_WritesOnlyOnConfirmation ==
    [][StoreRows(db') # StoreRows(db) => WritingTransition(last')]_vars

\* a save has stored a medicine and its reminder
C7_Witness ==
    /\ last.from = "CONFIRMING_MEDICINE"
    /\ last.text = BtnSave
    /\ last.calls = {"add_medicine", "add_reminder"}
    /\ last.wrote

\* C8: a text no state accepts, sent in a conversation state, leaves the
\* store as it was and the conversation in that state, and is answered with
\* the prompt of that state.
C8_InvalidInputStays ==
    (last.text = Garbage /\ last.from \notin {Idle, "ADDING_MEDICINE_NAME", "ADDING_MEDICINE_DOSAGE"})
        => /\ ~last.wrote
           /\ conv[last.conv] = last.from
           /\ last.replies # <<>>

\* C9: the cancel caption and /cancel, sent in any state but Idle, leave the
\* conversation in Idle.
C9_CancelEndsConversation ==
    (last.text \in {BtnCancel, CmdCancel} /\ last.from # Idle) => conv[last.conv] = Idle

\* C10: once a cancel has ended a conversation, the user_data of its user
\* holds nothing.
C10_CancelClearsDraft ==
    (/\ last.text \in {BtnCancel, CmdCancel, BtnNoCancelAll, BtnNoDontDelete}
     /\ last.from # Idle
     /\ conv[last.conv] = Idle)
        => user_data[last.conv[2]] = EmptyDict


\* C11: the saves of one add flow create at most one medicine; a save creates
\* a medicine only when the draft holds no medicine id, and a save that
\* succeeds inserts one reminder, with the time and dosage of the draft and
\* under the medicine of the draft, and leaves ADDING_MORE_TIMES.
C11_OneMedicinePerFlow ==
    /\ \A c \in Convs : Cardinality(made[c]) <= 1
    /\ (last.step = "handle_medicine_confirmation" /\ last.text = BtnSave)
          => /\ "add_medicine" \in last.calls => ~Has(last.draft, "medicine_id")
             /\ last.result = 1
                   => /\ conv[last.conv] = "ADDING_MORE_TIMES"
                      /\ Cardinality(last.added) = 1
                      /\ \A r \in last.added :
                            /\ r.time = last.draft["medicine_time"]
                            /\ r.dosage = last.draft["medicine_dosage"]
                            /\ r.medicine_id = user_data[last.conv[2]]["medicine_id"]


\* C12: when the save meets a failing add_medicine or add_reminder, or the
\* confirmed deletion meets a failing delete, the conversation is back in Idle
\* and the draft is empty.
C12_FailureDiscardsDraft ==
    (/\ last.step \in {"handle_medicine_confirmation", "handle_deletion_confirmation"}
     /\ last.replies # <<>>
     /\ last.replies[1] \in {"save_failed", "delete_failed"})
       => /\ conv[last.conv] = Idle
          /\ user_data[last.conv[2]] = EmptyDict


\* the medicines of the list shown in DELETING_MEDICINE_SELECT whose caption
\* the last message was
PickedMedicines ==
    IF last.step = "handle_medicine_selection_for_deletion"
          /\ Has(last.draft, "medicines_for_deletion")
    THEN LET ms == last.draft["medicines_for_deletion"]
         IN  {ms[i].id : i \in {j \in DOMAIN ms : MedicineButton(j, ms[j]) = last.text}}
    ELSE {}

ActiveRemindersOf(medicine_id) ==
    {r \in db.reminders : r.medicine_id = medicine_id /\ r.active}

\* C13: picking, in DELETING_MEDICINE_SELECT, a medicine that has at most one
\* active reminder leads straight to CONFIRMING_DELETION with deletion type
\* 'medicine'; picking one with more leads to DELETING_REMINDER_SELECT.
C13_PickerOnlyForSeveral ==
    \A id \in PickedMedicines :
        IF Cardinality(ActiveRemindersOf(id)) <= 1
        THEN /\ conv[last.conv] = "CONFIRMING_DELETION"
             /\ Has(user_data[last.conv[2]], "deletion_type")
             /\ user_data[last.conv[2]]["deletion_type"] = "medicine"
             /\ user_data[last.conv[2]]["selected_medicine"].id = id
        ELSE /\ conv[last.conv] = "DELETING_REMINDER_SELECT"
             /\ user_data[last.conv[2]]["selected_medicine"].id = id

C13_Witness ==
    /\ \E id \in PickedMedicines : Cardinality(ActiveRemindersOf(id)) = 1
    /\ conv[last.conv] = "CONFIRMING_DELETION"
    /\ user_data[last.conv[2]]["deletion_type"] = "medicine"


\* C14: confirming the deletion of a reminder picked by its time and dosage
\* deletes that reminder and no other, also when the medicine has several
\* active reminders at that time with different dosages.
C14_DeletesChosenReminder ==
    (/\ last.step = "handle_deletion_confirmation"
     /\ "delete_reminder" \in last.calls
     /\ last.result = 1)
       => /\ Cardinality(last.removed) = 1
          /\ \A r \in last.removed : ReminderButton(r) = last.chosen


\* the rows of the running (or last) invocation that its loop has passed
Passed == SubSeq(tick.rows, 1, Len(tick.rows) - Len(scan))

\* the Notifier invocations that invocation has made for reminder rid
TriedInTick(rid) ==
    {i \in DOMAIN attempts : /\ attempts[i].reminder_id = rid
                             /\ attempts[i].ref = current_time
                             /\ attempts[i].run = restarts}

\* C15: in one tick every due reminder the loop has passed and that was not
\* skipped for a recent log has had exactly one Notifier invocation, whether
\* the invocations before it succeeded or failed; the others have had none.
C15_EveryDueReminderTried ==
    \A i \in DOMAIN Passed :
        Cardinality(TriedInTick(Passed[i].reminder_id))
            = IF Due(Passed[i]) /\ Passed[i].reminder_id \notin tick.skipped THEN 1 ELSE 0

C15_Witness ==
    /\ kind = "loop"
    /\ \E i, j \in DOMAIN attempts :
          /\ i < j
          /\ ~attempts[i].ok
          /\ attempts[i].ref = attempts[j].ref /\ attempts[i].run = attempts[j].run
          /\ attempts[i].reminder_id # attempts[j].reminder_id
          /\ attempts[j].ref = current_time /\ attempts[j].run = restarts


\* C16: after a Notifier invocation for a reminder has failed, no later tick
\* invokes the Notifier for that reminder in the same local minute of the same
\* day, the first tick after a restart included.
C16_FailedNeverRetried ==
    \A i, j \in DOMAIN attempts :
        (/\ i < j
         /\ attempts[i].reminder_id = attempts[j].reminder_id
         /\ ~attempts[i].ok)
           => ~(/\ attempts[i].day = attempts[j].day
                /\ attempts[i].ref \div 60 = attempts[j].ref \div 60)


\* a step that appends one delivery record, for the reminder of a Notifier
\* invocation that succeeded in this same step
RecordAppended ==
    \E l \in db'.reminder_logs \ db.reminder_logs :
        /\ db'.reminder_logs = db.reminder_logs \cup {l}
        /\ Len(attempts') = Len(attempts) + 1
        /\ attempts'[Len(attempts')].ok
        /\ attempts'[Len(attempts')].reminder_id = l.reminder_id
        /\ attempts'[Len(attempts')].ref = current_time
        /\ attempts'[Len(attempts')].sent_at = l.sent_at

\* C17: a delivery record is appended only by the pass whose Notifier
\* invocation succeeded; a reminder never has more records than successful
\* invocations; and a record, once written, is neither changed nor removed.
C17_RecordsFollowSuccess ==
    /\ [](\A rid \in {r.id : r \in db.reminders} :
             Cardinality({l \in db.reminder_logs : l.reminder_id = rid})
                <= Cardinality({i \in DOMAIN attempts :
                                  attempts[i].reminder_id = rid /\ attempts[i].ok}))
    /\ [][/\ db.reminder_logs \subseteq db'.reminder_logs
          /\ db'.reminder_logs # db.reminder_logs => RecordAppended]_vars

C17_Witness ==
    /\ kind = "scheduler"
    /\ db.reminder_logs # {}
    /\ \E i \in DOMAIN attempts : ~attempts[i].ok


\* C18: a tick whose fetch of the active reminders failed has nothing to pass,
\* invokes no Notifier and writes no delivery record, and the loop sleeps its
\* 60 seconds after it as after any other tick, so the next tick is run.
C18_FailedFetchTick ==
    /\ []((pc = "scanning" /\ tick.failed) => scan = <<>>)
    /\ [][(pc = "scanning" /\ tick.failed)
             => /\ attempts' = attempts
                /\ db'.reminder_logs = db.reminder_logs
                /\ (kind = "loop" /\ restarts' = restarts /\ pc' # pc)
                      => (pc' = "sleeping" /\ wake_at' = now + SleepSeconds)]_vars

C18_Witness ==
    /\ kind = "loop"
    /\ pc = "scanning"
    /\ tick.after_failed
    /\ ~tick.failed
    /\ \E i \in DOMAIN attempts : attempts[i].ref = current_time


\* C20: with the loop as with the scheduler, at most one invocation of
\* check_and_send_reminders is running at any time, and it is running exactly
\* while a scan is under way.
C20_OneScanAtATime ==
    /\ running <= 1
    /\ (running = 1) = (pc = "scanning")

C20_Witness ==
    /\ kind = "scheduler"
    /\ last.step = "max_instances"
    /\ running = 1
    /\ now > current_time


\* C19: a message handled in one conversation leaves the draft of every other
\* conversation that is under way as it was, the conversations of one user
\* in two chats included.
C19_DraftsApart ==
    [][\A c \in Convs :
          (c # last'.conv /\ conv[c] # Idle) => user_data'[c[2]] = user_data[c[2]]]_vars


\* C21: a message whose sender the access check denies when it is handled
\* changes neither the store, nor the draft, nor the state of the
\* conversation, whatever state the conversation is in.
C21_DeniedChangesNothing ==
    [][(last'.conv \in Convs /\ last' # last /\ last'.conv[2] \notin allowed)
          => /\ db' = db
             /\ user_data' = user_data
             /\ conv' = conv]_vars

\* the time grammar of the specification: a bare hour of one or two digits,
\* H:MM or HH:MM, or the compact form of three or four digits
HourPart(s) ==
    IF Len(s) \in {1, 2} THEN s
    ELSE IF s[Len(s) - 2] = ":" THEN SubSeq(s, 1, Len(s) - 3)
    ELSE SubSeq(s, 1, Len(s) - 2)

MinutePart(s) == IF Len(s) \in {1, 2} THEN <<"0", "0">> ELSE SubSeq(s, Len(s) - 1, Len(s))

InTimeGrammar(s) ==
    /\ \/ Len(s) \in {1, 2}
       \/ Len(s) \in {4, 5} /\ s[Len(s) - 2] = ":"
       \/ Len(s) \in {3, 4} /\ s[Len(s) - 2] # ":"
    /\ Len(HourPart(s)) \in {1, 2}
    /\ AllDigits(HourPart(s)) /\ DecVal(HourPart(s)) <= 23
    /\ AllDigits(MinutePart(s)) /\ DecVal(MinutePart(s)) <= 59

Canonical(s) == FormatHHMM(DecVal(HourPart(s)), DecVal(MinutePart(s)))

\* a zero-padded HH:MM between 00:00 and 23:59
IsHHMM(t) ==
    /\ Len(t) = 5
    /\ t[3] = ":"
    /\ AllDigits(SubSeq(t, 1, 2)) /\ DecVal(SubSeq(t, 1, 2)) <= 23
    /\ AllDigits(SubSeq(t, 4, 5)) /\ DecVal(SubSeq(t, 4, 5)) <= 59

\* what the claim says of one application to a text, read as the text g
TimeContract(g, result) ==
    /\ InTimeGrammar(g) => result = Canonical(g)
    /\ ~InTimeGrammar(g) => result = None
    /\ result # None => IsHHMM(result) /\ validate_time_format(result) = result

\* C22 as stated: validate_time_format returns the canonical zero-padded HH:MM
\* for every text of the grammar and no value for every other text; a value
\* returned is in range and normalizes to itself.
C22_TimeGrammar ==
    last.step = "validate_time_format" => TimeContract(last.text, last.result)

\* C22 amended: the same, for the text with the white space around it removed.
C22_TimeGrammarStripped ==
    last.step = "validate_time_format" => TimeContract(Strip(last.text), last.result)

\* a text with white space around it was normalized to a value
C22_Witness ==
    /\ last.step = "validate_time_format"
    /\ last.text # Strip(last.text)
    /\ last.result # None
    /\ IsHHMM(last.result)

\* C23: in every reachable state the time of every stored reminder is a
\* zero-padded 24-hour HH:MM between 00:00 and 23:59, whatever texts, presets,
\* edits and further times of the add flow led to it.
C23_StoredTimesValid == \A r \in db.reminders : IsHHMM(r.time)

\* a further time of a medicine, typed by hand, has been saved
C23_Witness ==
    /\ last.text = BtnSave
    /\ Has(last.draft, "medicine_id")
    /\ \E r \in last.added : r.time = FormatHHMM(3, 30)

\* C24: the owner of every stored medicine is exactly one row of users, also
\* for a medicine saved by an allowed sender who never chose a time zone; so
\* every active reminder is among the rows the engine's join returns.
C24_OwnerExists ==
    /\ \A m \in db.medicines :
          Cardinality({u \in db.users : u.telegram_id = m.user_id}) = 1
    /\ \A r \in db.reminders :
          r.active /\ (\E m \in db.medicines : m.id = r.medicine_id)
             => \E i \in DOMAIN get_all_active_reminders(db) :
                   get_all_active_reminders(db)[i].reminder_id = r.id

\* a save of the add flow has succeeded for a sender who had no medicine
SavedFirstMedicine ==
    /\ last.step = "handle_medicine_confirmation"
    /\ last.text = BtnSave
    /\ last.result = 1
    /\ last.listed = 0

\* C25: after an add flow has saved a name, a time and a dosage for a user who
\* had no medicines, get_user_medicines returns exactly one medicine of that
\* name with exactly one reminder, active, of that time and that dosage.
C25_SavedIsListed ==
    SavedFirstMedicine =>
        LET listed == get_user_medicines(db, last.conv[2])
        IN  /\ Len(listed) = 1
            /\ listed[1].name = last.draft["medicine_name"]
            /\ Len(listed[1].reminders) = 1
            /\ listed[1].reminders[1].time = last.draft["medicine_time"]
            /\ listed[1].reminders[1].dosage = last.draft["medicine_dosage"]
            /\ listed[1].reminders[1].active

\* the save was that of a sender whose deleted medicine left a reminder behind
C25_Witness == SavedFirstMedicine /\ Cardinality(db.reminders) > 1

\* C26: when the token is missing at startup, the bot and the reminder
\* service both stop in a failed exit before any message or tick is handled,
\* and the reminder loop is never entered.
C26_NoTokenNoRun ==
    ~bot_token => /\ bot \in {"starting", "failed_exit"}
                  /\ pc \in {"starting", "failed_exit"}

\* the invocation that has just ended made a send that hung until the timeout
HungInTick ==
    \E i \in DOMAIN attempts :
        /\ attempts[i].ref = current_time
        /\ attempts[i].run = restarts
        /\ ~attempts[i].ok
        /\ attempts[i].sent_at - attempts[i].at = SendTimeout

\* C27: a send that hangs until the timeout does not delay the next tick: the
\* tick after the one with the hanging send takes its reference instant no
\* later than in the following minute, so the reminders due in that minute are
\* scanned in it.
C27_HangDelaysNoTick ==
    [][(kind = "loop" /\ pc = "sleeping" /\ pc' = "scanning" /\ HungInTick)
          => current_time' \div 60 <= (current_time \div 60) + 1]_vars

\* C28: 'edit' in CONFIRMING_MEDICINE removes the name, the time and the
\* dosage from the draft, keeps a medicine id the draft holds, writes nothing
\* to the store and leaves ADDING_MEDICINE_NAME.
C28_EditClearsDraft ==
    (/\ last.step = "handle_medicine_confirmation"
     /\ last.from = "CONFIRMING_MEDICINE"
     /\ last.text = BtnEdit)
       => /\ conv[last.conv] = "ADDING_MEDICINE_NAME"
          /\ ~last.wrote
          /\ user_data[last.conv[2]]
                = IF Has(last.draft, "medicine_id")
                  THEN Put(EmptyDict, "medicine_id", last.draft["medicine_id"])
                  ELSE EmptyDict

\* the message handled in this step is the add intent, taken up
AddIntent ==
    /\ last' # last
    /\ last'.step = "handle_add_medicine"
    /\ conv'[last'.conv] = "ADDING_MEDICINE_NAME"

\* the message handled in this step is a save under a medicine id of the draft
SaveUnderDraftId ==
    /\ last' # last
    /\ last'.step = "handle_medicine_confirmation"
    /\ last'.text = BtnSave
    /\ "add_reminder" \in last'.calls
    /\ "add_medicine" \notin last'.calls

\* C29: the add intent, sent in Idle, leaves an empty draft on entering
\* ADDING_MEDICINE_NAME, so a save never takes a medicine id (or another field)
\* that an earlier flow, finished, failed or cancelled, left behind: the id it
\* saves under is that of a medicine made since the add intent of its flow.
C29_IntentEmptiesDraft ==
    [][/\ AddIntent => user_data'[last'.conv[2]] = EmptyDict
       /\ SaveUnderDraftId => user_data[last'.conv[2]]["medicine_id"] \in made[last'.conv]]_vars

\* the add intent has been taken up over the draft, medicine id included, that
\* a cancelled flow left behind
C29_Witness ==
    /\ last.step = "handle_add_medicine"
    /\ Has(last.draft, "medicine_id")
    /\ Has(last.draft, "medicine_name")
    /\ conv[last.conv] = "ADDING_MEDICINE_NAME"
    /\ user_data[last.conv[2]] = EmptyDict

\* C30: the Notifier is invoked for a reminder in a tick only if the reference
\* instant of the tick, in the zone of the owner and formatted HH:MM, equals
\* the stored time as a string; the reference instant is taken once per tick
\* and is the same for every reminder of the tick.
C30_SentOnlyWhenDue ==
    [][/\ \A i \in DOMAIN attempts' :
             LocalHHMM(UserTimezone(db', attempts'[i].message.chat_id), attempts'[i].ref)
                = attempts'[i].message.time
       /\ (pc = "scanning" /\ pc' = "scanning") => current_time' = current_time]_vars

\* two owners were notified in one tick, the second after the first send hung
C30_Witness ==
    \E i, j \in DOMAIN attempts :
        /\ i < j
        /\ attempts[i].ref = attempts[j].ref /\ attempts[i].run = attempts[j].run
        /\ attempts[i].message.chat_id # attempts[j].message.chat_id
        /\ attempts[j].at = attempts[j].ref + SendTimeout

\* C31: validate_dosage returns no value for a text that is empty once
\* trimmed, and the trimmed text for a text that matches a unit pattern or is
\* any other text of at most 50 characters; a longer text that matches no
\* pattern is rejected, and the conversation stays in ADDING_MEDICINE_DOSAGE
\* with no dosage in the draft.
C31_DosageContract ==
    (/\ last.step = "handle_medicine_dosage"
     /\ last.from = "ADDING_MEDICINE_DOSAGE"
     /\ last.text # BtnCancel)
       => LET s == Strip(last.text)
              fits == s # <<>> /\ (MatchesDosagePattern(s) \/ Len(s) <= MaxDosageLen)
          IN  /\ s = <<>> => validate_dosage(last.text) = None
              /\ fits => validate_dosage(last.text) = s
              /\ (s # <<>> /\ ~fits)
                    => /\ validate_dosage(last.text) = None
                       /\ conv[last.conv] = "ADDING_MEDICINE_DOSAGE"
                       /\ ~Has(user_data[last.conv[2]], "medicine_dosage")

\* the rows of store d that user v owns: the medicines, their reminders and
\* the delivery records of those
OwnedBy(d, v) ==
    LET ms == {m \in d.medicines : m.user_id = v}
        rs == RemindersOfMedicines(d, {m.id : m \in ms})
    IN  [medicines |-> ms, reminders |-> rs, logs |-> LogsOfReminders(d, {r.id : r \in rs})]

\* the delete methods, called by user u on store d for rows of others
RefusesOthers(d, u) ==
    /\ \A m \in d.medicines :
          m.user_id # u => delete_medicine(d, m.id, u) = [db |-> d, result |-> FALSE]
    /\ \A r \in d.reminders :
          (\A m \in d.medicines : m.id = r.medicine_id => m.user_id # u)
             => delete_reminder(d, r.id, u) = [db |-> d, result |-> FALSE]
    /\ \A v \in Users \ {u} :
          OwnedBy(delete_all_user_medicines(d, u).db, v) = OwnedBy(d, v)

\* C32: no message of one user removes or changes a medicine, a reminder or a
\* delivery record that another user owns; delete_medicine, delete_reminder
\* and delete_all_user_medicines remove only rows under a medicine of the
\* caller and return False or leave the rows of others alone otherwise.
C32_OthersUntouched ==
    [][/\ (last' # last /\ last'.conv \in Convs)
             => \A v \in Users \ {last'.conv[2]} : OwnedBy(db', v) = OwnedBy(db, v)
       /\ \A u \in Users : RefusesOthers(db', u)]_vars

\* a user has deleted a reminder or a medicine beside the rows of another user
C32_Witness ==
    /\ last.step = "handle_deletion_confirmation"
    /\ last.result = 1
    /\ \E v \in Users \ {last.conv[2]} : OwnedBy(db, v).reminders # {}

\* the message handled in this step has stored a time zone for its sender
ZoneStored ==
    /\ last' # last
    /\ last'.conv \in Convs
    /\ "add_user" \in last'.calls

\* the user row of the sender, as a set (empty before the registration)
UserRow(d, u) == {r \in d.users : r.telegram_id = u}

\* C33: storing a time zone for a user (add_user, INSERT OR REPLACE) leaves
\* the medicines, the reminders and the delivery records as they were, those
\* of that user included; of the user row only the time zone changes (the
\* identifier and the creation timestamp stay), and no other user row changes.
C33_ZoneChangeKeepsRows ==
    [][ZoneStored
          => LET u == last'.conv[2]
             IN  /\ db'.medicines = db.medicines
                 /\ db'.reminders = db.reminders
                 /\ db'.reminder_logs = db.reminder_logs
                 /\ db'.users \ UserRow(db', u) = db.users \ UserRow(db, u)
                 /\ Cardinality(UserRow(db', u)) = 1
                 /\ \A old \in UserRow(db, u) : \A new \in UserRow(db', u) :
                        new.created_at = old.created_at]_vars

\* C34: once a confirmed deletion of a medicine or of a single reminder has
\* succeeded, the engine does not invoke the Notifier for a reminder that
\* deletion removed and appends no delivery record for it, a tick that was
\* already under way when the deletion happened included.
C34_NothingForDeleted ==
    [][/\ Len(attempts') > Len(attempts)
          => attempts'[Len(attempts')].reminder_id \notin gone.reminders
       /\ \A l \in db'.reminder_logs \ db.reminder_logs :
             l.reminder_id \notin gone.reminders]_vars

\* C35: after a save in CONFIRMING_MEDICINE that succeeded, the medicine the
\* new reminder is attached to is stored under the name the draft held when
\* the confirmation was shown, also when the name was entered anew after
\* 'edit' in a flow that had saved a reminder before.
C35_SavedUnderDraftName ==
    (/\ last.step = "handle_medicine_confirmation"
     /\ last.text = BtnSave
     /\ last.result = 1)
       => \A r \in last.added :
             \E m \in db.medicines : /\ m.id = r.medicine_id
                                     /\ m.name = last.draft["medicine_name"]

\* C36: run at the same instants over the same store and with the same
\* answers of the Notifier, two ticks within one minute included, the loop of
\* reminder_service.py and the job of scheduler.py invoke the Notifier for
\* the same reminders the same number of times, in the same order, and append
\* the same delivery records.
C36_EnginesAgree ==
    last.step = "tick_of_both"
       => /\ last.result.loop.sent = last.result.scheduler.sent
          /\ last.result.loop.db.reminder_logs = last.result.scheduler.db.reminder_logs

\* the minutes that lie wholly within the time the loop is followed
WholeMinutes == ((Base \div 60) + 1) .. ((HangEnd \div 60) - 1)

\* every active reminder of an existing user that falls due in one of those
\* minutes was sent, with success, by a tick whose reference instant lies in it
DeliveredInEveryMinute ==
    LET rows == get_all_active_reminders(db)
    IN  \A i \in DOMAIN rows : \A m \in WholeMinutes :
           LocalHHMM(rows[i].timezone, 60 * m) = rows[i].time
              => \E j \in DOMAIN attempts : /\ attempts[j].reminder_id = rows[i].reminder_id
                                            /\ attempts[j].ok
                                            /\ attempts[j].ref \div 60 = m

\* C37: while the loop runs without interruption and the Notifier succeeds,
\* every active reminder of an existing user is eventually delivered at its
\* time: every minute has a tick whose reference instant falls in it, although
\* the 60 seconds of sleep begin only when the processing of a tick has ended.
C37_EventuallyDelivered == <>DeliveredInEveryMinute

\* the message handled in this step confirmed the deletion of one reminder,
\* and delete_reminder returned True
ReminderDeletionConfirmed ==
    /\ last' # last
    /\ last'.step = "handle_deletion_confirmation"
    /\ "delete_reminder" \in last'.calls
    /\ last'.result = 1

\* C38: the confirmed deletion of a single reminder removes that reminder and
\* no other: the medicines (the one that owned it included), every other
\* reminder, the users and the delivery records of the other reminders stay as
\* they were; the conversation is idle afterwards and the draft is empty.
C38_OnlyThatReminder ==
    [][ReminderDeletionConfirmed
          => LET c    == last'.conv
                 rid  == user_data[c[2]]["selected_reminder"].id
                 gone_rows == db.reminders \ db'.reminders
             IN  /\ {r.id : r \in gone_rows} = {rid}
                 /\ db'.reminders \subseteq db.reminders
                 /\ db'.medicines = db.medicines
                 /\ db'.users = db.users
                 /\ {l \in db'.reminder_logs : l.reminder_id # rid}
                       = {l \in db.reminder_logs : l.reminder_id # rid}
                 /\ conv'[c] = Idle
                 /\ user_data'[c[2]] = EmptyDict]_vars

\* one of two reminders of a medicine was deleted while another user has data
C38_Witness ==
    /\ last.step = "handle_deletion_confirmation"
    /\ "delete_reminder" \in last.calls
    /\ last.result = 1
    /\ \E r \in db.reminders : r.medicine_id = last.draft["selected_medicine"].id
    /\ \E m \in db.medicines : m.user_id # last.conv[2]
    /\ db.reminder_logs # {}

\* the keys of user_data the handler of an add-flow state reads
DraftFieldsRead(state) ==
    IF state = "ADDING_MEDICINE_TIME" THEN {"medicine_name"}
    ELSE IF state = "ADDING_MEDICINE_DOSAGE" THEN {"medicine_name", "medicine_time"}
    ELSE IF state = "CONFIRMING_MEDICINE"
    THEN {"medicine_name", "medicine_time", "medicine_dosage"}
    ELSE IF state = "ADDING_MORE_TIMES" THEN {"medicine_name"}
    ELSE {}

\* C39: whenever a conversation is in ADDING_MEDICINE_TIME,
\* ADDING_MEDICINE_DOSAGE, CONFIRMING_MEDICINE or ADDING_MORE_TIMES, the draft
\* of its user holds every field the handler of that state reads: the name in
\* all four, the time as well in ADDING_MEDICINE_DOSAGE, the time and the
\* dosage as well in CONFIRMING_MEDICINE.
C39_DraftFieldsPresent ==
    \A c \in Convs : \A key \in DraftFieldsRead(conv[c]) : Has(user_data[c[2]], key)

=============================================================================
